---- MODULE Spec2Model ----
(***************************************************************************)
(* Provisioning orchestration engine of the game-server manager: the       *)
(* record store (servers, jobs, port_allocations, sftp_access), the HTTP   *)
(* admission handlers that write to it, the port allocator and the job     *)
(* runner (poll loop, processJob, port-retry loop).                        *)
(*                                                                         *)
(* Each HTTP handler is one action: the handlers issue their statements    *)
(* without an intervening await, and better-sqlite3 is synchronous.  A     *)
(* runner is a separate event loop over the same store: its poll reads the *)
(* queued jobs in one statement and claims them one by one, so statements  *)
(* of other processes may fall between the read and each claim.            *)
(***************************************************************************)
EXTENDS Integers, Sequences, FiniteSets, TLC

----------------------------------------------------------------------------
(* Bounds of the model *)

MaxServers == 2
MaxJobs == 3
NumRunners == 2
MaxConcurrentJobs == 1
GamePoolSize == 5
SftpPoolSize == 1
MaxLogLines == 2
MaxTimeoutSec == 6
MaxRequestSec == 1

----------------------------------------------------------------------------
(* Configuration *)

GamePoolStart == 27000
GamePoolEnd == GamePoolStart + GamePoolSize - 1
SftpPoolStart == 2200
SftpPoolEnd == SftpPoolStart + SftpPoolSize - 1

\* getPortPool(name): the configured pools
PortPools ==
  [game |-> [start |-> GamePoolStart, end |-> GamePoolEnd],
   sftp |-> [start |-> SftpPoolStart, end |-> SftpPoolEnd]]

\* isProxmoxConfigured(): the virtualization backend is configured
isProxmoxConfigured == TRUE

ServerIds == 1..MaxServers
JobIds == 1..MaxJobs
Runners == 1..NumRunners

ServerStatus ==
  {"pending_ports", "pending", "provisioning", "running", "stopped",
   "error", "deleting"}

JobStatus == {"queued", "running", "completed", "failed"}

\* the actions accepted by CreateJobSchema
CreateJobActions ==
  {"provision", "start", "stop", "backup", "update", "deprovision",
   "delete", "install-mods"}

\* the keys of the actionHandlers table
JobActions ==
  CreateJobActions \cup {"setup-sftp", "disable-sftp", "reset-sftp-password"}

\* Game definitions: GamePorts, in the key order of the definition file.
\* "lined" has adjacent default ports, "spread" has a gap between its
\* default ports, "shared" uses one default port number for two purposes
\* (one tcp, one udp).
GameIds == {"lined", "spread", "shared"}
PortNames == {"game", "query"}

GamePorts ==
  [lined  |-> << [name |-> "game", port |-> 2456], [name |-> "query", port |-> 2457] >>,
   spread |-> << [name |-> "game", port |-> 7777], [name |-> "query", port |-> 7779] >>,
   shared |-> << [name |-> "game", port |-> 27015], [name |-> "query", port |-> 27015] >>]

\* AllocatedPorts is a record name -> port; 0 stands for an absent key
NoPorts == [n \in PortNames |-> 0]


Min(S) == CHOOSE x \in S : \A y \in S : x <= y
Max(S) == CHOOSE x \in S : \A y \in S : x >= y

----------------------------------------------------------------------------
(* State *)

VARIABLES
  servers,           \* servers table: id -> row (status "none": no row yet)
  jobs,              \* jobs table in insertion order: id -> row
  port_allocations,  \* port_allocations table: set of rows
  sftp_access,       \* sftp_access table: server ids that have a grant
  running,           \* JobRunner.running, per runner
  activeJobs,        \* JobRunner.activeJobs, per runner
  queuedJobs,        \* the queuedJobs list a poll is still iterating over
  contexts,          \* JobContext of a job whose handler is executing
  executions,        \* how many times a handler was invoked for a job
  lastCreateJob,     \* server id and response code, when the last step was POST /servers/:serverId/jobs
  lastAlloc,         \* the findAvailableGamePorts calls of the last step
  lastResult,        \* the ExecutionResult processJob received, when the last step ended a job
  lastVmCalls,       \* the Proxmox calls handleProvision issued in the last step
  lastSteps,         \* the external steps a handler ran in the last step, in order, with their outcomes
  shutdowns,         \* where the shutdown() call started by each signal stands
  deleteRequestedFrom, \* the status each server had when DELETE /servers/:id answered 202
  wait               \* the call of waitForTask or waitForIpAddress in progress

vars ==
  << servers, jobs, port_allocations, sftp_access, running, activeJobs,
     queuedJobs, contexts, executions, lastCreateJob, lastAlloc, lastResult,
     lastVmCalls, lastSteps, shutdowns, deleteRequestedFrom, wait >>

store == << servers, jobs, port_allocations, sftp_access >>
runner == << running, activeJobs, queuedJobs, contexts, executions >>
\* no job-creation request
NoRequest == [code |-> 0, serverId |-> 0]

\* no job ended; error "none" stands for undefined, thrown "none" for a
\* handler that returned
NoResult == [job |-> 0, success |-> FALSE, error |-> "none", thrown |-> "none"]

\* the signals index.ts registers shutdown for
Signals == {"SIGTERM", "SIGINT"}

\* a step that answers no job-creation request, makes no allocator call,
\* ends no job and calls no VM backend
NoObservation ==
  /\ lastCreateJob' = NoRequest
  /\ lastAlloc' = << >>
  /\ lastResult' = NoResult
  /\ lastVmCalls' = {}
  /\ lastSteps' = << >>

\* such a step, when it is no step of a shutdown either
Unobserved == NoObservation /\ UNCHANGED << shutdowns, deleteRequestedFrom, wait >>

NoServer ==
  [status |-> "none", gameId |-> "none", allocatedPorts |-> NoPorts,
   internalAddress |-> FALSE, vmId |-> FALSE, sftpPassword |-> FALSE,
   deleted |-> FALSE]

\* ctx.server: the fields of the row read by executeJob that the handlers
\* consult later on
ServerFields(server) ==
  [status |-> server.status, internalAddress |-> server.internalAddress,
   vmId |-> server.vmId, sftpPassword |-> server.sftpPassword]

NoContext == [phase |-> "none", server |-> ServerFields(NoServer)]

----------------------------------------------------------------------------
(* Record store: servers *)

\* serversRepo.getServerById(id): soft-deleted rows are not found
getServerById(id) ==
  IF servers[id].status # "none" /\ ~servers[id].deleted
  THEN servers[id] ELSE NoServer

ServerFound(id) == getServerById(id).status # "none"

\* fault: the query has no "deleted_at IS NULL" condition
getServersByStatusIncludingDeleted(status) ==
  {id \in ServerIds : servers[id].status = status}

\* serversRepo.getServersByStatus(status)
getServersByStatus(status) ==
  {id \in ServerIds : servers[id].status = status /\ ~servers[id].deleted}

\* serversRepo.getAllServers()
getAllServers ==
  {id \in ServerIds : servers[id].status # "none" /\ ~servers[id].deleted}

\* every server of the model is created by one owner in one guild: the
\* owner_id and guild_id columns hold these values in every row
OwnerId == "owner"
GuildId == "guild"

\* serversRepo.getServersByOwner(ownerId)
getServersByOwner(ownerId) ==
  {id \in ServerIds : /\ servers[id].status # "none"
                       /\ ownerId = OwnerId
                       /\ ~servers[id].deleted}

\* serversRepo.getServersByGuild(guildId)
getServersByGuild(guildId) ==
  {id \in ServerIds : /\ servers[id].status # "none"
                       /\ guildId = GuildId
                       /\ ~servers[id].deleted}

\* the id the next inserted server row gets
NextServerId == Cardinality({id \in ServerIds : servers[id].status # "none"}) + 1

\* serversRepo.updateServer(id, {status}): no row is written when the
\* server is not found
updateServerStatus(table, id, status) ==
  IF table[id].status # "none" /\ ~table[id].deleted
  THEN [table EXCEPT ![id].status = status]
  ELSE table

----------------------------------------------------------------------------
(* Record store: jobs *)

\* jobsRepo.createJob(input): the row is inserted with status 'queued'
createJob(table, serverId, action) ==
  Append(table, [serverId |-> serverId, action |-> action,
                 status |-> "queued", error |-> "none", logs |-> << >>])

\* jobsRepo.getJobsByServer(serverId)
getJobsByServer(serverId) ==
  {j \in 1..Len(jobs) : jobs[j].serverId = serverId}

\* the activeJob lookup of the admission handlers
activeJob(serverId) ==
  {j \in getJobsByServer(serverId) : jobs[j].status \in {"queued", "running"}}

----------------------------------------------------------------------------
(* Record store: port_allocations *)

\* portsRepo.getAllocatedPortsInPool(pool)
getAllocatedPortsInPool(table, pool) ==
  {row.port : row \in {r \in table : r.pool = pool}}

\* fault: the table without its UNIQUE(pool, port) constraint
InsertAllowedNoUnique(table, row) == TRUE

\* one INSERT INTO port_allocations: UNIQUE(pool, port) rejects the row
InsertAllowed(table, row) ==
  \A r \in table : ~(r.pool = row.pool /\ r.port = row.port)

\* portsRepo.createPortAllocations(inputs): every row is inserted in one
\* transaction; a rejected INSERT throws and rolls the transaction back
RECURSIVE InsertRows(_, _, _)
InsertRows(original, table, inputs) ==
  IF inputs = << >> THEN [ok |-> TRUE, table |-> table]
  ELSE IF InsertAllowed(table, Head(inputs))
       THEN InsertRows(original, table \cup {Head(inputs)}, Tail(inputs))
       ELSE [ok |-> FALSE, table |-> original]

\* fault: DELETE ... WHERE server_id = ? AND pool = 'game'
deletePortAllocationsByServerGameOnly(table, serverId) ==
  {r \in table : ~(r.serverId = serverId /\ r.pool = "game")}

\* portsRepo.deletePortAllocationsByServer(serverId)
deletePortAllocationsByServer(table, serverId) ==
  {r \in table : r.serverId # serverId}

----------------------------------------------------------------------------
(* Port allocator *)

\* findConsecutiveBlock(allocatedPorts, poolStart, poolEnd, blockSize):
\* the scan from poolStart upwards; 0 stands for null
RECURSIVE ScanBlock(_, _, _, _)
ScanBlock(allocatedPorts, start, poolEnd, blockSize) ==
  IF ~(start <= poolEnd - blockSize + 1) THEN 0
  ELSE IF \A i \in 0..(blockSize - 1) : (start + i) \notin allocatedPorts
       THEN start
       ELSE ScanBlock(allocatedPorts, start + 1, poolEnd, blockSize)

\* fault: only the first port of a block is looked up
findConsecutiveBlockFirstFree(allocatedPorts, poolStart, poolEnd, blockSize) ==
  ScanBlock(allocatedPorts, poolStart, poolEnd - blockSize + 1, 1)

findConsecutiveBlock(allocatedPorts, poolStart, poolEnd, blockSize) ==
  ScanBlock(allocatedPorts, poolStart, poolEnd, blockSize)

\* the block size findAvailableGamePorts asks for
BlockSizeOf(gamePorts) ==
  LET basePorts == {gamePorts[i].port : i \in 1..Len(gamePorts)}
      offsets == {p - Min(basePorts) : p \in basePorts}
  IN Max(offsets) + 1

\* fault: the names get the ports of the block one after the other,
\* whatever the offsets of their default ports
findAvailableGamePortsSequential(table, gamePorts) ==
  LET pool == PortPools.game
      allocatedSet == getAllocatedPortsInPool(table, "game")
      blockStart == findConsecutiveBlock(allocatedSet, pool.start, pool.end,
                                         BlockSizeOf(gamePorts))
  IN IF blockStart = 0
     THEN [ok |-> FALSE, ports |-> NoPorts]
     ELSE [ok |-> TRUE,
           ports |-> [n \in PortNames |->
                        IF \E k \in 1..Len(gamePorts) : gamePorts[k].name = n
                        THEN blockStart
                               + (CHOOSE k \in 1..Len(gamePorts) : gamePorts[k].name = n) - 1
                        ELSE 0]]

\* findAvailableGamePorts(gamePorts) against the allocation table:
\* ok = FALSE stands for the thrown PortAllocationError
findAvailableGamePorts(table, gamePorts) ==
  LET pool == PortPools.game
      allocatedSet == getAllocatedPortsInPool(table, "game")
      basePorts == {gamePorts[i].port : i \in 1..Len(gamePorts)}
      minBasePort == Min(basePorts)
      blockSize == BlockSizeOf(gamePorts)
      blockStart == findConsecutiveBlock(allocatedSet, pool.start, pool.end, blockSize)
      portOf(n) ==
        LET i == CHOOSE k \in 1..Len(gamePorts) : gamePorts[k].name = n
        IN blockStart + (gamePorts[i].port - minBasePort)
  IN IF blockStart = 0
     THEN [ok |-> FALSE, ports |-> NoPorts]
     ELSE [ok |-> TRUE,
           ports |-> [n \in PortNames |->
                        IF \E k \in 1..Len(gamePorts) : gamePorts[k].name = n
                        THEN portOf(n) ELSE 0]]

\* the rows createPortAllocations(serverId, allocatedPorts, pool) builds,
\* in the order of the game's port names
AllocationInputs(serverId, gameId, allocatedPorts, pool) ==
  LET names == [i \in 1..Len(GamePorts[gameId]) |-> GamePorts[gameId][i].name]
      present == SelectSeq(names, LAMBDA n : allocatedPorts[n] # 0)
  IN [i \in 1..Len(present) |->
        [serverId |-> serverId, pool |-> pool,
         port |-> allocatedPorts[present[i]], purpose |-> present[i]]]

\* createPortAllocations(serverId, allocatedPorts, pool = "game")
createPortAllocations(table, serverId, gameId, allocatedPorts) ==
  InsertRows(table, table, AllocationInputs(serverId, gameId, allocatedPorts, "game"))

\* the record kept of one findAvailableGamePorts call
AllocCall(table, gameId, result) ==
  [gameId |-> gameId, allocated |-> getAllocatedPortsInPool(table, "game"),
   ok |-> result.ok, ports |-> result.ports]

\* releasePorts(serverId)
releasePorts(table, serverId) == deletePortAllocationsByServer(table, serverId)

\* no wait in progress
NoWait ==
  [kind |-> "none", timeoutSec |-> 0, elapsed |-> 0, pc |-> "idle",
   error |-> "none"]

----------------------------------------------------------------------------
(* Initial state: an empty store and started runners *)

Init ==
  /\ servers = [id \in ServerIds |-> NoServer]
  /\ jobs = << >>
  /\ port_allocations = {}
  /\ sftp_access = {}
  /\ running = [r \in Runners |-> TRUE]
  /\ activeJobs = [r \in Runners |-> {}]
  /\ queuedJobs = [r \in Runners |-> << >>]
  /\ contexts = [j \in JobIds |-> NoContext]
  /\ executions = [j \in JobIds |-> 0]
  /\ lastCreateJob = NoRequest
  /\ lastAlloc = << >>
  /\ lastResult = NoResult
  /\ lastVmCalls = {}
  /\ lastSteps = << >>
  /\ shutdowns = [sig \in Signals |-> "idle"]
  /\ deleteRequestedFrom = [id \in ServerIds |-> "none"]
  /\ wait = NoWait

----------------------------------------------------------------------------
(* POST /servers *)

CreateServer(gameId) ==
  LET id == NextServerId
      found == findAvailableGamePorts(port_allocations, GamePorts[gameId])
      portAllocationFailed == ~found.ok
      allocatedPorts == IF found.ok THEN found.ports ELSE NoPorts
      row == [NoServer EXCEPT
                !.status = IF portAllocationFailed THEN "pending_ports" ELSE "pending",
                !.gameId = gameId,
                !.allocatedPorts = allocatedPorts]
      inserted == createPortAllocations(port_allocations, id, gameId, allocatedPorts)
  IN /\ id \in ServerIds
     /\ servers' = [servers EXCEPT ![id] = row]
     /\ lastAlloc' = << AllocCall(port_allocations, gameId, found) >>
     /\ lastResult' = NoResult
     /\ lastVmCalls' = {}
     /\ lastSteps' = << >>
     /\ UNCHANGED << shutdowns, deleteRequestedFrom, wait >>
     /\ IF portAllocationFailed
        THEN \* 202, portAllocationFailed: no rows, no job
             UNCHANGED << port_allocations, jobs >>
        ELSE IF ~inserted.ok
        THEN \* 500: createPortAllocations threw after the server row was written
             UNCHANGED << port_allocations, jobs >>
        ELSE \* 202
             /\ Len(jobs) < MaxJobs
             /\ port_allocations' = inserted.table
             /\ jobs' = createJob(jobs, id, "provision")
     /\ UNCHANGED << sftp_access, runner >>
     /\ lastCreateJob' = NoRequest

----------------------------------------------------------------------------
(* PATCH /servers/:id/ports - manual port assignment *)

\* ports: the request body, name -> port (0: the name is not in the body)
ManualPorts(id, ports) ==
  LET server == getServerById(id)
      missingPorts ==
        {GamePorts[server.gameId][i].name : i \in 1..Len(GamePorts[server.gameId])}
          \cap {n \in PortNames : ports[n] = 0}
      released == releasePorts(port_allocations, id)
      inserted == createPortAllocations(released, id, server.gameId, ports)
  IN /\ ServerFound(id)
     /\ UNCHANGED << jobs, sftp_access, runner >>
     /\ Unobserved
     /\ IF missingPorts # {}
        THEN \* 400
             UNCHANGED << servers, port_allocations >>
        ELSE IF ~inserted.ok
        THEN \* 500: createPortAllocations threw after releasePorts
             /\ port_allocations' = released
             /\ UNCHANGED servers
        ELSE \* 200, updateServerPorts: the port map and status 'pending'
             /\ port_allocations' = inserted.table
             /\ servers' = [servers EXCEPT ![id].allocatedPorts = ports,
                                           ![id].status = "pending"]

----------------------------------------------------------------------------
(* POST /servers/:serverId/jobs *)

\* fault: the case of "start" is missing from the switch
validateJobActionNoStartCase(currentStatus, action) ==
  CASE action = "provision" -> currentStatus # "pending"
    [] action = "stop" -> currentStatus # "running"
    [] action = "backup" -> currentStatus # "running" /\ currentStatus # "stopped"
    [] action = "update" -> currentStatus # "stopped"
    [] action = "deprovision" ->
         currentStatus = "running" \/ currentStatus = "provisioning"
    [] OTHER -> FALSE

\* validateJobAction(currentStatus, action): TRUE iff it returns an error
validateJobAction(currentStatus, action) ==
  CASE action = "provision" -> currentStatus # "pending"
    [] action = "start" -> currentStatus # "stopped" /\ currentStatus # "error"
    [] action = "stop" -> currentStatus # "running"
    [] action = "backup" -> currentStatus # "running" /\ currentStatus # "stopped"
    [] action = "update" -> currentStatus # "stopped"
    [] action = "deprovision" ->
         currentStatus = "running" \/ currentStatus = "provisioning"
    [] OTHER -> FALSE

\* getStatusForAction(action): "none" stands for null
getStatusForAction(action) ==
  CASE action = "provision" -> "provisioning"
    [] action = "deprovision" -> "pending"
    [] OTHER -> "none"

\* fault: the status of the action is written before the lookup of an
\* active job
CreateJobStatusFirst(serverId, action) ==
  LET server == getServerById(serverId)
      newStatus == getStatusForAction(action)
      reply(code) == [code |-> code, serverId |-> serverId]
      updated == IF newStatus # "none"
                 THEN updateServerStatus(servers, serverId, newStatus)
                 ELSE servers
  IN /\ UNCHANGED << port_allocations, sftp_access, runner >>
     /\ lastAlloc' = << >>
     /\ lastResult' = NoResult
     /\ lastVmCalls' = {}
     /\ lastSteps' = << >>
     /\ UNCHANGED << shutdowns, deleteRequestedFrom, wait >>
     /\ IF ~ServerFound(serverId)
        THEN /\ lastCreateJob' = reply(404)
             /\ UNCHANGED << servers, jobs >>
        ELSE IF validateJobAction(server.status, action)
        THEN /\ lastCreateJob' = reply(409)
             /\ UNCHANGED << servers, jobs >>
        ELSE IF activeJob(serverId) # {}
        THEN /\ lastCreateJob' = reply(409)
             /\ servers' = updated
             /\ UNCHANGED jobs
        ELSE /\ Len(jobs) < MaxJobs
             /\ jobs' = createJob(jobs, serverId, action)
             /\ servers' = updated
             /\ lastCreateJob' = reply(201)

CreateJob(serverId, action) ==
  LET server == getServerById(serverId)
      newStatus == getStatusForAction(action)
      reply(code) == [code |-> code, serverId |-> serverId]
  IN /\ UNCHANGED << port_allocations, sftp_access, runner >>
     /\ lastAlloc' = << >>
     /\ lastResult' = NoResult
     /\ lastVmCalls' = {}
     /\ lastSteps' = << >>
     /\ UNCHANGED << shutdowns, deleteRequestedFrom, wait >>
     /\ IF ~ServerFound(serverId)
        THEN /\ lastCreateJob' = reply(404)
             /\ UNCHANGED << servers, jobs >>
        ELSE IF validateJobAction(server.status, action)
        THEN /\ lastCreateJob' = reply(409)
             /\ UNCHANGED << servers, jobs >>
        ELSE IF activeJob(serverId) # {}
        THEN /\ lastCreateJob' = reply(409)
             /\ UNCHANGED << servers, jobs >>
        ELSE /\ Len(jobs) < MaxJobs
             /\ jobs' = createJob(jobs, serverId, action)
             /\ servers' = IF newStatus # "none"
                           THEN updateServerStatus(servers, serverId, newStatus)
                           ELSE servers
             /\ lastCreateJob' = reply(201)

----------------------------------------------------------------------------
(* DELETE /servers/:id *)

DeleteServer(id, isOwner) ==
  LET server == getServerById(id)
  IN /\ ServerFound(id)
     /\ UNCHANGED << port_allocations, sftp_access, runner >>
     /\ NoObservation
     /\ UNCHANGED << shutdowns, wait >>
     /\ IF ~isOwner
        THEN \* 403
             UNCHANGED << servers, jobs, deleteRequestedFrom >>
        ELSE IF server.status = "deleting" \/ server.status = "provisioning"
        THEN \* 409
             UNCHANGED << servers, jobs, deleteRequestedFrom >>
        ELSE IF activeJob(id) # {}
        THEN \* 409
             UNCHANGED << servers, jobs, deleteRequestedFrom >>
        ELSE \* 202
             /\ Len(jobs) < MaxJobs
             /\ jobs' = createJob(jobs, id, "delete")
             /\ servers' = updateServerStatus(servers, id, "deleting")
             /\ deleteRequestedFrom' =
                  [deleteRequestedFrom EXCEPT ![id] = server.status]

----------------------------------------------------------------------------
(* SFTP endpoints *)

\* findAvailableSftpPort(): the first free port of the sftp pool, 0 when
\* it throws
findAvailableSftpPort(table) ==
  LET free == {p \in PortPools.sftp.start..PortPools.sftp.end :
                 p \notin getAllocatedPortsInPool(table, "sftp")}
  IN IF free = {} THEN 0 ELSE Min(free)

\* allocateSftpPort(serverId): the table after the INSERT
allocateSftpPort(table, serverId) ==
  InsertRows(table, table,
             << [serverId |-> serverId, pool |-> "sftp",
                 port |-> findAvailableSftpPort(table), purpose |-> "sftp"] >>).table

\* fault: the endpoint looks the server up among the soft-deleted rows too
EnableSftpIncludingDeleted(serverId) ==
  LET server == servers[serverId]
  IN /\ server.status # "none"
     /\ UNCHANGED << runner >>
     /\ Unobserved
     /\ IF ~server.internalAddress
        THEN UNCHANGED store
        ELSE IF serverId \in sftp_access
        THEN UNCHANGED store
        ELSE IF findAvailableSftpPort(port_allocations) = 0
        THEN UNCHANGED store
        ELSE /\ Len(jobs) < MaxJobs
             /\ port_allocations' = allocateSftpPort(port_allocations, serverId)
             /\ servers' = [servers EXCEPT ![serverId].sftpPassword = TRUE]
             /\ sftp_access' = sftp_access \cup {serverId}
             /\ jobs' = createJob(jobs, serverId, "setup-sftp")

\* POST /servers/:serverId/sftp
EnableSftp(serverId) ==
  LET server == getServerById(serverId)
  IN /\ ServerFound(serverId)
     /\ UNCHANGED << runner >>
     /\ Unobserved
     /\ IF ~server.internalAddress
        THEN \* 400
             UNCHANGED store
        ELSE IF serverId \in sftp_access
        THEN \* 409
             UNCHANGED store
        ELSE IF findAvailableSftpPort(port_allocations) = 0
        THEN \* 503
             UNCHANGED store
        ELSE \* 201
             /\ Len(jobs) < MaxJobs
             /\ port_allocations' = allocateSftpPort(port_allocations, serverId)
             /\ servers' = [servers EXCEPT ![serverId].sftpPassword = TRUE]
             /\ sftp_access' = sftp_access \cup {serverId}
             /\ jobs' = createJob(jobs, serverId, "setup-sftp")

\* DELETE /servers/:serverId/sftp
DisableSftp(serverId) ==
  /\ ServerFound(serverId)
  /\ serverId \in sftp_access
  /\ Len(jobs) < MaxJobs
  /\ jobs' = createJob(jobs, serverId, "disable-sftp")
  /\ UNCHANGED << servers, port_allocations, sftp_access, runner >>
  /\ Unobserved

\* POST /servers/:serverId/sftp/reset-password
ResetSftpPassword(serverId) ==
  /\ ServerFound(serverId)
  /\ serverId \in sftp_access
  /\ Len(jobs) < MaxJobs
  /\ servers' = [servers EXCEPT ![serverId].sftpPassword = TRUE]
  /\ jobs' = createJob(jobs, serverId, "reset-sftp-password")
  /\ UNCHANGED << port_allocations, sftp_access, runner >>
  /\ Unobserved

----------------------------------------------------------------------------
(* Job runner *)

\* jobsRepo.getQueuedJobs(limit): the first `limit` queued rows, in
\* insertion order
RECURSIVE TakeQueued(_, _, _)
TakeQueued(table, from, limit) ==
  IF limit <= 0 \/ from > Len(table) THEN << >>
  ELSE IF table[from].status = "queued"
       THEN << from >> \o TakeQueued(table, from + 1, limit - 1)
       ELSE TakeQueued(table, from + 1, limit)

getQueuedJobs(limit) == TakeQueued(jobs, 1, limit)

\* fault: UPDATE ... WHERE id = ?, without the status guard
startJobUnguarded(table, id) ==
  [changes |-> 1, table |-> [table EXCEPT ![id].status = "running"]]

\* jobsRepo.startJob(id): UPDATE ... WHERE id = ? AND status = 'queued';
\* changes = 0 stands for the null it returns when no row was updated
startJob(table, id) ==
  IF table[id].status = "queued"
  THEN [changes |-> 1, table |-> [table EXCEPT ![id].status = "running"]]
  ELSE [changes |-> 0, table |-> table]

\* fault: the UPDATE stores the new entry alone
appendJobLogReplacing(table, id, log) ==
  IF id \in DOMAIN table
  THEN [table EXCEPT ![id].logs = << log >>]
  ELSE table

\* jobsRepo.appendJobLog(id, log): read the row, push the entry, UPDATE
\* jobs SET logs = ? WHERE id = ?
appendJobLog(table, id, log) ==
  IF id \in DOMAIN table
  THEN [table EXCEPT ![id].logs = Append(@, log)]
  ELSE table

\* fault: the UPDATE of completeJob tests for status 'queued'
completeJobWhereQueued(table, id, error) ==
  IF table[id].status = "queued"
  THEN [table EXCEPT ![id].status = IF error # "none" /\ error # "" THEN "failed" ELSE "completed",
                     ![id].error = error]
  ELSE table

\* jobsRepo.completeJob(id, error): UPDATE ... WHERE id = ? AND status =
\* 'running'; error "none" stands for undefined
completeJob(table, id, error) ==
  IF table[id].status = "running"
  THEN [table EXCEPT ![id].status = IF error # "none" /\ error # "" THEN "failed" ELSE "completed",
                     ![id].error = error]
  ELSE table

\* fault: the switch has no case for "stop"
updateServerStatusAfterJobNoStopCase(table, serverId, action, success) ==
  IF action = "delete" THEN table
  ELSE IF ~success THEN updateServerStatus(table, serverId, "error")
  ELSE CASE action = "provision" -> updateServerStatus(table, serverId, "stopped")
         [] action = "start" -> updateServerStatus(table, serverId, "running")
         [] action = "deprovision" -> updateServerStatus(table, serverId, "pending")
         [] OTHER -> table

\* fault: the failure branch comes before the early return for "delete"
updateServerStatusAfterJobFailureFirst(table, serverId, action, success) ==
  IF ~success THEN updateServerStatus(table, serverId, "error")
  ELSE IF action = "delete" THEN table
  ELSE CASE action = "provision" -> updateServerStatus(table, serverId, "stopped")
         [] action = "start" -> updateServerStatus(table, serverId, "running")
         [] action = "stop" -> updateServerStatus(table, serverId, "stopped")
         [] action = "deprovision" -> updateServerStatus(table, serverId, "pending")
         [] OTHER -> table

\* updateServerStatusAfterJob(serverId, action, success)
updateServerStatusAfterJob(table, serverId, action, success) ==
  IF action = "delete" THEN table
  ELSE IF ~success THEN updateServerStatus(table, serverId, "error")
  ELSE CASE action = "provision" -> updateServerStatus(table, serverId, "stopped")
         [] action = "start" -> updateServerStatus(table, serverId, "running")
         [] action = "stop" -> updateServerStatus(table, serverId, "stopped")
         [] action = "deprovision" -> updateServerStatus(table, serverId, "pending")
         [] OTHER -> table

\* fault: the jobs in flight are not subtracted
availableSlotsIgnoringActive(r) == MaxConcurrentJobs

\* availableSlots = this.options.maxConcurrentJobs - this.activeJobs.size
availableSlots(r) == MaxConcurrentJobs - Cardinality(activeJobs[r])

\* JobRunner.pollAndProcessJobs(): the capacity check and the read of the
\* queued jobs
Poll(r) ==
  /\ running[r]
  /\ queuedJobs[r] = << >>
  /\ availableSlots(r) > 0
  /\ getQueuedJobs(availableSlots(r)) # << >>
  /\ queuedJobs' = [queuedJobs EXCEPT ![r] = getQueuedJobs(availableSlots(r))]
  /\ UNCHANGED << store, running, activeJobs, contexts, executions >>
  /\ Unobserved

\* the phase a handler is in once executeJob has called it
FirstPhase(action, server) ==
  IF action = "provision" /\ ~server.internalAddress /\ isProxmoxConfigured
  THEN "vm" ELSE "handler"

\* fault: processJob does not return when startJob updated no row
ProcessNextIgnoringClaim(r) ==
  LET job == Head(queuedJobs[r])
      server == getServerById(jobs[job].serverId)
      startedJob == startJob(jobs, job)
  IN /\ queuedJobs[r] # << >>
     /\ queuedJobs' = [queuedJobs EXCEPT ![r] = IF running[r] THEN Tail(@) ELSE << >>]
     /\ UNCHANGED << servers, port_allocations, sftp_access, running >>
     /\ Unobserved
     /\ IF ~running[r] \/ job \in activeJobs[r]
        THEN UNCHANGED << jobs, activeJobs, contexts, executions >>
        ELSE /\ jobs' = IF ServerFound(jobs[job].serverId)
                        THEN appendJobLog(startedJob.table, job, "Starting")
                        ELSE startedJob.table
             /\ activeJobs' = [activeJobs EXCEPT ![r] = @ \cup {job}]
             /\ executions' = [executions EXCEPT ![job] = @ + 1]
             /\ contexts' = [contexts EXCEPT ![job] =
                               [phase |-> IF ServerFound(jobs[job].serverId)
                                          THEN FirstPhase(jobs[job].action, server)
                                          ELSE "missing",
                                server |-> ServerFields(server)]]

\* one iteration of the loop over queuedJobs: processJob(job) up to its
\* first await.  startJob is the guarded claim; when it updates no row the
\* job was "already started by another runner" and processJob returns.
\* executeJob returns at once when the server is not found.
ProcessNext(r) ==
  LET job == Head(queuedJobs[r])
      server == getServerById(jobs[job].serverId)
      startedJob == startJob(jobs, job)
  IN /\ queuedJobs[r] # << >>
     /\ queuedJobs' = [queuedJobs EXCEPT ![r] = IF running[r] THEN Tail(@) ELSE << >>]
     /\ UNCHANGED << servers, port_allocations, sftp_access, running >>
     /\ Unobserved
     /\ IF ~running[r] \/ job \in activeJobs[r]
        THEN \* break, or continue
             UNCHANGED << jobs, activeJobs, contexts, executions >>
        ELSE IF startedJob.changes = 0
        THEN \* return: activeJobs.add and the finally block cancel out
             UNCHANGED << jobs, activeJobs, contexts, executions >>
        ELSE /\ jobs' = IF ServerFound(jobs[job].serverId)
                        THEN appendJobLog(startedJob.table, job, "Starting")
                        ELSE startedJob.table
             /\ activeJobs' = [activeJobs EXCEPT ![r] = @ \cup {job}]
             /\ executions' = [executions EXCEPT ![job] = @ + 1]
             /\ contexts' = [contexts EXCEPT ![job] =
                               [phase |-> IF ServerFound(jobs[job].serverId)
                                          THEN FirstPhase(jobs[job].action, server)
                                          ELSE "missing",
                                server |-> ServerFields(server)]]

\* the last entry executeJob logs: "Completed ..." after the handler
\* returned, "Error during ..." in the catch block, none when the server
\* was not found
executeJobLog(job, result) ==
  IF contexts[job].phase = "missing" THEN jobs
  ELSE appendJobLog(jobs, job, IF result.thrown # "none" THEN "Error during"
                               ELSE "Completed")

\* fault: processJob has no finally block, so the job stays in activeJobs
processJobEndKeepingActive(r, job, result, serversAfter, allocationsAfter, accessAfter) ==
  /\ jobs' = completeJob(executeJobLog(job, result), job,
                         IF result.success THEN "none" ELSE result.error)
  /\ servers' = updateServerStatusAfterJob(
                  serversAfter, jobs[job].serverId, jobs[job].action,
                  result.success)
  /\ port_allocations' = allocationsAfter
  /\ sftp_access' = accessAfter
  /\ contexts' = [contexts EXCEPT ![job] = NoContext]
  /\ UNCHANGED << running, activeJobs, queuedJobs, executions >>
  /\ lastCreateJob' = NoRequest
  /\ lastAlloc' = << >>
  /\ lastResult' = [job |-> job, success |-> result.success,
                    error |-> result.error, thrown |-> result.thrown]
  /\ UNCHANGED << shutdowns, deleteRequestedFrom, wait >>

\* the end of processJob: completeJob, updateServerStatusAfterJob and the
\* finally block, given the result executeJob resolved with and the tables
\* the handler's last statements left
processJobEnd(r, job, result, serversAfter, allocationsAfter, accessAfter) ==
  /\ jobs' = completeJob(executeJobLog(job, result), job,
                         IF result.success THEN "none" ELSE result.error)
  /\ servers' = updateServerStatusAfterJob(
                  serversAfter, jobs[job].serverId, jobs[job].action,
                  result.success)
  /\ port_allocations' = allocationsAfter
  /\ sftp_access' = accessAfter
  /\ activeJobs' = [activeJobs EXCEPT ![r] = @ \ {job}]
  /\ contexts' = [contexts EXCEPT ![job] = NoContext]
  /\ UNCHANGED << running, queuedJobs, executions >>
  /\ lastCreateJob' = NoRequest
  /\ lastAlloc' = << >>
  /\ lastResult' = [job |-> job, success |-> result.success,
                    error |-> result.error, thrown |-> result.thrown]
  /\ UNCHANGED << shutdowns, deleteRequestedFrom, wait >>

\* a handler returned { success, error }
Complete(r, job, success, error, serversAfter, allocationsAfter, accessAfter) ==
  /\ processJobEnd(r, job,
                   [success |-> success, error |-> error, thrown |-> "none"],
                   serversAfter, allocationsAfter, accessAfter)
  /\ lastVmCalls' = {}
  /\ lastSteps' = << >>

\* the calls provisionVm has issued when it waits for the guest agent
ProvisionCalls == {"cloneVm", "startVm"}

\* fault: the catch block of handleProvision destroys the instance
waitForIpAddressTimeoutCleanup == ProvisionCalls \cup {"deleteVm"}

\* the calls issued by handleProvision when waitForIpAddress throws
waitForIpAddressTimeout == ProvisionCalls

\* how an awaited step of a handler can end.  runPlaybookWithLogging
\* resolves with a successful or a failed result, or rejects; the gateway
\* and Proxmox calls return or throw.
PlaybookOutcomes == {"ok", "failed", "thrown"}
CallOutcomes == {"ok", "thrown"}

Step(name, outcome) == [step |-> name, outcome |-> outcome]

\* the remote calls of provisionVm, in the order of its statements
ProvisionOrder ==
  << "getNextVmId", "cloneVm", "waitForTask(clone)", "configureVm",
     "resizeDisk", "configureCloudInit", "configureNetwork", "startVm",
     "waitForTask(start)", "waitForIpAddress" >>

\* resources.disk > 0: every resource setting has a positive disk size
resizesDisk == TRUE

\* the calls provisionVm makes when none throws: resizeDisk when
\* resources.disk > 0, configureNetwork when config.vlanTag is set
RECURSIVE provisionVmCalls(_, _)
provisionVmCalls(order, vlanTag) ==
  IF order = << >> THEN << >>
  ELSE IF \/ Head(order) = "resizeDisk" /\ ~resizesDisk
          \/ Head(order) = "configureNetwork" /\ ~vlanTag
  THEN provisionVmCalls(Tail(order), vlanTag)
  ELSE << Head(order) >> \o provisionVmCalls(Tail(order), vlanTag)

\* the steps of a run in which the call named failing throws ("none": no
\* call throws): the error of resizeDisk is caught inside provisionVm, any
\* other error leaves it
RECURSIVE provisionVmSteps(_, _)
provisionVmSteps(calls, failing) ==
  IF calls = << >> THEN << >>
  ELSE IF Head(calls) # failing
  THEN << Step(Head(calls), "ok") >> \o provisionVmSteps(Tail(calls), failing)
  ELSE IF failing = "resizeDisk"
  THEN << Step(Head(calls), "thrown") >> \o provisionVmSteps(Tail(calls), failing)
  ELSE << Step(Head(calls), "thrown") >>

\* VmProvisioner.provisionVm: the steps it ran and whether it returned
\* { vmId, ipAddress }
provisionVm(vlanTag, failing) ==
  LET steps == provisionVmSteps(provisionVmCalls(ProvisionOrder, vlanTag), failing)
  IN [steps |-> steps,
      returned |-> steps # << >> /\ steps[Len(steps)].outcome = "ok"]

\* handleProvision, first part: provisioner.provisionVm returns and
\* updateServer stores what it returned, or it throws and the catch block
\* returns a failed result
ProvisionVmCall(r, job, vlanTag, failing) ==
  LET id == jobs[job].serverId
      run == provisionVm(vlanTag, failing)
      issued == {run.steps[i].step : i \in DOMAIN run.steps}
  IN /\ job \in activeJobs[r]
     /\ queuedJobs[r] = << >>
     /\ contexts[job].phase = "vm"
     /\ lastSteps' = run.steps
     /\ IF run.returned
        THEN \* updateServer(server.id, {internalAddress, vmId, vmNode})
             /\ servers' = IF ServerFound(id)
                           THEN [servers EXCEPT ![id].internalAddress = TRUE,
                                                ![id].vmId = TRUE]
                           ELSE servers
             /\ contexts' = [contexts EXCEPT ![job].phase = "handler",
                                             ![job].server.internalAddress = TRUE,
                                             ![job].server.vmId = TRUE]
             /\ UNCHANGED << jobs, port_allocations, sftp_access, running,
                             activeJobs, queuedJobs, executions >>
             /\ lastCreateJob' = NoRequest
             /\ lastAlloc' = << >>
             /\ lastResult' = NoResult
             /\ lastVmCalls' = ProvisionCalls
             /\ UNCHANGED << shutdowns, deleteRequestedFrom, wait >>
        ELSE /\ processJobEnd(r, job,
                   [success |-> FALSE,
                    error |-> IF failing = "waitForIpAddress"
                              THEN "VM provisioning failed: Timed out waiting for IP address"
                              ELSE "VM provisioning failed",
                    thrown |-> "none"],
                   servers, port_allocations, sftp_access)
             /\ lastVmCalls' = IF failing = "waitForIpAddress"
                               THEN waitForIpAddressTimeout
                               ELSE issued \cap ProvisionCalls

\* config.vlanTag of the default configuration: PROXMOX_VLAN_TAG is unset
DefaultVlanTag == FALSE

\* handleProvision, first part, when the guest agent reports no IPv4
\* address within timeouts.guestAgent: provisionVm has cloned and started
\* the instance, waitForIpAddress throws and the catch block returns
IpAddressTimeout(r, job) ==
  ProvisionVmCall(r, job, DefaultVlanTag, "waitForIpAddress")

\* handleProvision, first part: provisioner.provisionVm returns, or throws
\* before it has cloned an instance
ProvisionVm(r, job, ok) ==
  ProvisionVmCall(r, job, DefaultVlanTag, IF ok THEN "none" ELSE "getNextVmId")

\* the messages of the exceptions modelled: empty (new Error(), or a thrown
\* empty string) and non-empty
ThrownMessages == {"", "exception"}

\* fault: the catch block reports a fixed text instead of the message
executeJobCatchFixedText(message) ==
  [success |-> FALSE, error |-> "failed", thrown |-> message]

\* executeJob, catch (err): error = err instanceof Error ? err.message :
\* String(err); return { success: false, error, logs }
executeJobCatch(message) ==
  [success |-> FALSE, error |-> message, thrown |-> message]

\* isUniFiConfigured(): the gateway is configured
isUniFiConfigured == TRUE

\* game.playbooks.deprovision: the game definitions name a deprovision
\* playbook
hasDeprovisionPlaybook == TRUE

\* serversRepo.updateServer(id, input), for the fields internalAddress and
\* vmId (vmNode is set together with vmId): a field whose input is
\* undefined is left out of the UPDATE
updateServer(table, id, input) ==
  IF ~(table[id].status # "none" /\ ~table[id].deleted) THEN table
  ELSE [table EXCEPT
          ![id].internalAddress =
             IF input.internalAddress = "undefined" THEN @ ELSE TRUE,
          ![id].vmId = IF input.vmId = "undefined" THEN @ ELSE TRUE]

\* what a handler leaves behind: the steps it ran, the result executeJob
\* resolves with and the tables after its last statement
HandlerRun(steps, result, serversAfter, allocationsAfter) ==
  [steps |-> steps, result |-> result, servers |-> serversAfter,
   allocations |-> allocationsAfter]

Returned(success, error) ==
  [success |-> success, error |-> error, thrown |-> "none"]

\* handleDeprovision(ctx): the deprovision playbook when the game has one
\* and the server an address (a failed result is logged; the call is in no
\* try block), deletePortForwardingRules in a try block, destroyVm in a
\* try block whose catch returns a failed result, then
\* updateServer(server.id, {internalAddress: undefined, vmId: undefined,
\* vmNode: undefined})
handleDeprovision(job, o) ==
  LET id == jobs[job].serverId
      server == contexts[job].server
      playbook == IF hasDeprovisionPlaybook /\ server.internalAddress
                  THEN << Step("deprovision", o.deprovision) >> ELSE << >>
      rules == IF isUniFiConfigured
               THEN << Step("deletePortForwardingRules", o.rules) >> ELSE << >>
      destroy == IF server.vmId /\ isProxmoxConfigured
                 THEN << Step("destroyVm", o.destroy) >> ELSE << >>
  IN IF playbook # << >> /\ o.deprovision = "thrown"
     THEN HandlerRun(playbook, executeJobCatch("exception"), servers,
                     port_allocations)
     ELSE IF destroy # << >> /\ o.destroy = "thrown"
     THEN HandlerRun(playbook \o rules \o destroy,
                     Returned(FALSE, "VM destruction failed"), servers,
                     port_allocations)
     ELSE HandlerRun(playbook \o rules \o destroy, Returned(TRUE, "none"),
                     IF destroy # << >>
                     THEN updateServer(servers, id,
                                       [internalAddress |-> "undefined",
                                        vmId |-> "undefined"])
                     ELSE servers,
                     port_allocations)

DeleteOutcomes ==
  [stop : PlaybookOutcomes, deprovision : PlaybookOutcomes,
   rules : CallOutcomes, destroy : CallOutcomes]

\* serversRepo.softDeleteServer(id): UPDATE ... WHERE id = ? AND
\* deleted_at IS NULL
softDeleteServer(table, id) == [table EXCEPT ![id].deleted = TRUE]

\* handleDelete(ctx): handleStop when ctx.server.status is Running (a
\* failed result is logged; the call is in no try block), then the
\* deprovision playbook, deletePortForwardingRules and destroyVm, each in a
\* try block whose catch logs, then releasePorts and softDeleteServer
handleDelete(job, o) ==
  LET id == jobs[job].serverId
      server == contexts[job].server
      stop == IF server.status = "running"
              THEN << Step("stop", o.stop) >> ELSE << >>
      playbook == IF hasDeprovisionPlaybook /\ server.internalAddress
                  THEN << Step("deprovision", o.deprovision) >> ELSE << >>
      rules == IF isUniFiConfigured
               THEN << Step("deletePortForwardingRules", o.rules) >> ELSE << >>
      destroy == IF server.vmId /\ isProxmoxConfigured
                 THEN << Step("destroyVm", o.destroy) >> ELSE << >>
  IN IF stop # << >> /\ o.stop = "thrown"
     THEN HandlerRun(stop, executeJobCatch("exception"), servers,
                     port_allocations)
     ELSE HandlerRun(stop \o playbook \o rules \o destroy
                       \o << Step("releasePorts", "ok"),
                             Step("softDeleteServer", "ok") >>,
                     Returned(TRUE, "none"),
                     softDeleteServer(servers, id),
                     releasePorts(port_allocations, id))

\* fault: a gateway error while the forwarding rules are created ends the
\* handler with a failed result
handleProvisionStrict(job, rules, playbook) ==
  LET forwarding == IF isUniFiConfigured
                    THEN << Step("createPortForwardingRules", rules) >>
                    ELSE << >>
  IN IF forwarding # << >> /\ rules = "thrown"
     THEN HandlerRun(forwarding, Returned(FALSE, "failed"), servers,
                     port_allocations)
     ELSE HandlerRun(forwarding \o << Step("provision", playbook) >>,
                     CASE playbook = "ok" -> Returned(TRUE, "none")
                       [] playbook = "failed" -> Returned(FALSE, "failed")
                       [] OTHER -> executeJobCatch("exception"),
                     servers, port_allocations)

\* handleProvision(ctx), second part: createPortForwardingRules in a try
\* block whose catch logs a warning, then the result of the provision
\* playbook
handleProvision(job, rules, playbook) ==
  LET forwarding == IF isUniFiConfigured
                    THEN << Step("createPortForwardingRules", rules) >>
                    ELSE << >>
  IN HandlerRun(forwarding \o << Step("provision", playbook) >>,
                CASE playbook = "ok" -> Returned(TRUE, "none")
                  [] playbook = "failed" -> Returned(FALSE, "failed")
                  [] OTHER -> executeJobCatch("exception"),
                servers, port_allocations)

\* handleSetupSftp(ctx) and handleResetSftpPassword(ctx), which differ in
\* their log lines only: without config._sftpPassword on the row executeJob
\* read, a failed result and no playbook; otherwise the setup-sftp playbook
\* and, when it succeeded, updateServer(server.id, {config: cleanConfig}),
\* which writes nothing when getServerById does not find the server
handleSetupSftp(job, playbook) ==
  LET id == jobs[job].serverId
      server == contexts[job].server
      found == servers[id].status # "none" /\ ~servers[id].deleted
  IN IF ~server.sftpPassword
     THEN HandlerRun(<< >>,
                     Returned(FALSE, "SFTP password not found in server config"),
                     servers, port_allocations)
     ELSE HandlerRun(<< Step("setup-sftp", playbook) >>,
                     IF playbook = "ok" THEN Returned(TRUE, "none")
                     ELSE Returned(FALSE, "failed"),
                     IF playbook = "ok" /\ found
                     THEN [servers EXCEPT ![id].sftpPassword = FALSE]
                     ELSE servers,
                     port_allocations)

\* every step succeeds
AllOk == [stop |-> "ok", deprovision |-> "ok", rules |-> "ok", destroy |-> "ok"]

\* a handler ends: executeJob resolves and processJob finishes the job
HandlerEnds(r, job, run) ==
  /\ processJobEnd(r, job, run.result, run.servers, run.allocations,
                   sftp_access)
  /\ lastVmCalls' = {}
  /\ lastSteps' = run.steps

\* handleProvision after the instance step, with the outcomes of its steps
RunProvision(r, job, rules, playbook) ==
  /\ job \in activeJobs[r]
  /\ queuedJobs[r] = << >>
  /\ contexts[job].phase = "handler"
  /\ jobs[job].action = "provision"
  /\ HandlerEnds(r, job, handleProvision(job, rules, playbook))

\* handleDeprovision with the outcomes o of its steps
RunDeprovision(r, job, o) ==
  /\ job \in activeJobs[r]
  /\ queuedJobs[r] = << >>
  /\ contexts[job].phase = "handler"
  /\ jobs[job].action = "deprovision"
  /\ HandlerEnds(r, job, handleDeprovision(job, o))

\* handleDelete with the outcomes o of its steps
RunDelete(r, job, o) ==
  /\ job \in activeJobs[r]
  /\ queuedJobs[r] = << >>
  /\ contexts[job].phase = "handler"
  /\ jobs[job].action = "delete"
  /\ HandlerEnds(r, job, handleDelete(job, o))

\* whether the handler of this action can return a failed result
CanFail(action, server) ==
  CASE action = "delete" -> FALSE
    [] action = "deprovision" -> server.vmId /\ isProxmoxConfigured
    [] OTHER -> TRUE

\* whether the handler of this action can return a successful result
CanSucceed(action, server) ==
  CASE action \in {"setup-sftp", "reset-sftp-password"} -> server.sftpPassword
    [] OTHER -> TRUE

\* the rest of a handler and the end of processJob.  The handler works on
\* the server row executeJob read when the job was claimed; success is the
\* outcome of the external commands it runs.
FinishJob(r, job, success) ==
  LET id == jobs[job].serverId
      action == jobs[job].action
      server == contexts[job].server
      found == servers[id].status # "none" /\ ~servers[id].deleted
  IN /\ job \in activeJobs[r]
     /\ queuedJobs[r] = << >>
     /\ contexts[job].phase \in {"handler", "missing"}
     /\ IF contexts[job].phase = "missing" THEN TRUE
        ELSE IF success THEN CanSucceed(action, server)
        ELSE CanFail(action, server)
     /\ CASE contexts[job].phase = "missing" ->
               \* executeJob: { success: false, error: "Server not found" }
               Complete(r, job, FALSE, "Server not found", servers,
                        port_allocations, sftp_access)
          [] action = "delete" ->
               HandlerEnds(r, job, handleDelete(job, AllOk))
          [] action = "provision" ->
               HandlerEnds(r, job,
                           handleProvision(job, "ok",
                                           IF success THEN "ok" ELSE "failed"))
          [] action = "deprovision" ->
               HandlerEnds(r, job,
                           handleDeprovision(job,
                             IF success THEN AllOk
                             ELSE [AllOk EXCEPT !.destroy = "thrown"]))
          [] action \in {"setup-sftp", "reset-sftp-password"} ->
               HandlerEnds(r, job,
                           handleSetupSftp(job, IF success THEN "ok" ELSE "failed"))
          [] action = "disable-sftp" /\ success ->
               \* sftpRepo.deleteSftpAccessByServer(server.id)
               Complete(r, job, TRUE, "none", servers, port_allocations,
                        sftp_access \ {id})
          [] OTHER ->
               Complete(r, job, success, "failed", servers, port_allocations,
                        sftp_access)

\* a handler calls ctx.log while it runs: a line of its own or a line of
\* playbook output passed to onOutput
HandlerLog(r, job) ==
  /\ job \in activeJobs[r]
  /\ queuedJobs[r] = << >>
  /\ contexts[job].phase \in {"vm", "handler"}
  /\ Len(jobs[job].logs) < MaxLogLines
  /\ jobs' = appendJobLog(jobs, job, "output")
  /\ UNCHANGED << servers, port_allocations, sftp_access, runner >>
  /\ Unobserved

\* a statement inside executeJob's try block throws before the handler
\* has written anything
HandlerThrows(r, job, message) ==
  /\ job \in activeJobs[r]
  /\ queuedJobs[r] = << >>
  /\ contexts[job].phase \in {"vm", "handler"}
  /\ processJobEnd(r, job, executeJobCatch(message), servers,
                   port_allocations, sftp_access)
  /\ lastVmCalls' = {}
  /\ lastSteps' = << >>

\* JobRunner.retryPortAllocations(): one pass over the pending_ports
\* servers, newest first
RECURSIVE NewestFirst(_)
NewestFirst(ids) ==
  IF ids = {} THEN << >> ELSE << Max(ids) >> \o NewestFirst(ids \ {Max(ids)})

\* fault: updateServerPorts stores the port map and leaves the status
RECURSIVE RetryPassKeepingStatus(_, _)
RetryPassKeepingStatus(pendingServers, st) ==
  IF pendingServers = << >> THEN st
  ELSE LET id == Head(pendingServers)
           gameId == st.servers[id].gameId
           found == findAvailableGamePorts(st.allocations, GamePorts[gameId])
           inserted == createPortAllocations(st.allocations, id, gameId, found.ports)
           calls == Append(st.calls, AllocCall(st.allocations, gameId, found))
       IN IF found.ok /\ inserted.ok
          THEN RetryPassKeepingStatus(Tail(pendingServers),
                 [servers |-> [st.servers EXCEPT ![id].allocatedPorts = found.ports],
                  allocations |-> inserted.table,
                  calls |-> calls])
          ELSE RetryPassKeepingStatus(Tail(pendingServers),
                                      [st EXCEPT !.calls = calls])

\* fault: a failed retry marks the server as failed
RECURSIVE RetryPassFailureIsFatal(_, _)
RetryPassFailureIsFatal(pendingServers, st) ==
  IF pendingServers = << >> THEN st
  ELSE LET id == Head(pendingServers)
           gameId == st.servers[id].gameId
           found == findAvailableGamePorts(st.allocations, GamePorts[gameId])
           inserted == createPortAllocations(st.allocations, id, gameId, found.ports)
           calls == Append(st.calls, AllocCall(st.allocations, gameId, found))
       IN IF found.ok /\ inserted.ok
          THEN RetryPassFailureIsFatal(Tail(pendingServers),
                 [servers |-> [st.servers EXCEPT ![id].allocatedPorts = found.ports,
                                                 ![id].status = "pending"],
                  allocations |-> inserted.table,
                  calls |-> calls])
          ELSE RetryPassFailureIsFatal(Tail(pendingServers),
                 [st EXCEPT !.calls = calls, !.servers[id].status = "error"])

RECURSIVE RetryPass(_, _)
RetryPass(pendingServers, st) ==
  IF pendingServers = << >> THEN st
  ELSE LET id == Head(pendingServers)
           gameId == st.servers[id].gameId
           found == findAvailableGamePorts(st.allocations, GamePorts[gameId])
           inserted == createPortAllocations(st.allocations, id, gameId, found.ports)
           calls == Append(st.calls, AllocCall(st.allocations, gameId, found))
       IN IF found.ok /\ inserted.ok
          THEN RetryPass(Tail(pendingServers),
                 [servers |-> [st.servers EXCEPT ![id].allocatedPorts = found.ports,
                                                 ![id].status = "pending"],
                  allocations |-> inserted.table,
                  calls |-> calls])
          ELSE RetryPass(Tail(pendingServers), [st EXCEPT !.calls = calls])

\* fault: retryPortAllocations does not look at this.running
RetryPortAllocationsWhileStopped(r) ==
  LET pendingServers == NewestFirst(getServersByStatus("pending_ports"))
      st == RetryPass(pendingServers,
                      [servers |-> servers, allocations |-> port_allocations,
                       calls |-> << >>])
  IN /\ queuedJobs[r] = << >>
     /\ pendingServers # << >>
     /\ servers' = st.servers
     /\ port_allocations' = st.allocations
     /\ lastAlloc' = st.calls
     /\ lastResult' = NoResult
     /\ lastVmCalls' = {}
     /\ lastSteps' = << >>
     /\ UNCHANGED << shutdowns, deleteRequestedFrom, wait >>
     /\ UNCHANGED << jobs, sftp_access, runner >>
     /\ lastCreateJob' = NoRequest

RetryPortAllocations(r) ==
  LET pendingServers == NewestFirst(getServersByStatus("pending_ports"))
      st == RetryPass(pendingServers,
                      [servers |-> servers, allocations |-> port_allocations,
                       calls |-> << >>])
  IN /\ running[r]
     /\ queuedJobs[r] = << >>
     /\ pendingServers # << >>
     /\ servers' = st.servers
     /\ port_allocations' = st.allocations
     /\ lastAlloc' = st.calls
     /\ lastResult' = NoResult
     /\ lastVmCalls' = {}
     /\ lastSteps' = << >>
     /\ UNCHANGED << shutdowns, deleteRequestedFrom, wait >>
     /\ UNCHANGED << jobs, sftp_access, runner >>
     /\ lastCreateJob' = NoRequest

\* JobRunner.stop(): running = false and the timers are cleared
StopRunner(r) ==
  /\ running[r]
  /\ queuedJobs[r] = << >>
  /\ running' = [running EXCEPT ![r] = FALSE]
  /\ UNCHANGED << store, activeJobs, queuedJobs, contexts, executions >>
  /\ Unobserved

\* whether a stop() call resolves without entering the wait loop: the
\* early return when running is false, or an empty activeJobs set
stopResolved(r) == ~running[r] \/ activeJobs[r] = {}

\* a signal arrives: shutdown() calls stopJobRunner(), which awaits
\* runnerInstance.stop() (or nothing, once runnerInstance is null).  The
\* handler runs between two polls, not inside the loop of one.
Signal(sig) ==
  /\ shutdowns[sig] = "idle"
  /\ \A other \in Signals : shutdowns[other] # "closed"
  /\ queuedJobs[1] = << >>
  /\ running' = [running EXCEPT ![1] = FALSE]
  /\ shutdowns' = [shutdowns EXCEPT ![sig] =
                     IF stopResolved(1) THEN "close" ELSE "stop"]
  /\ UNCHANGED << store, activeJobs, queuedJobs, contexts, executions >>
  /\ NoObservation
  /\ UNCHANGED << deleteRequestedFrom, wait >>

\* the wait loop of stop() finds activeJobs empty after a sleep
StopWaitEnds(sig) ==
  /\ shutdowns[sig] = "stop"
  /\ activeJobs[1] = {}
  /\ shutdowns' = [shutdowns EXCEPT ![sig] = "close"]
  /\ UNCHANGED << store, runner >>
  /\ NoObservation
  /\ UNCHANGED << deleteRequestedFrom, wait >>

\* shutdown() after stopJobRunner() has resolved: fastify.close(),
\* closeDatabase() and process.exit(0)
CloseDatabase(sig) ==
  /\ shutdowns[sig] = "close"
  /\ \A other \in Signals : shutdowns[other] # "closed"
  /\ shutdowns' = [shutdowns EXCEPT ![sig] = "closed"]
  /\ UNCHANGED << store, runner >>
  /\ NoObservation
  /\ UNCHANGED << deleteRequestedFrom, wait >>

----------------------------------------------------------------------------
(* Bounded waits of the Proxmox client *)

\* seconds between two polls: setTimeout(resolve, 2000) in waitForTask,
\* setTimeout(resolve, 5000) in waitForIpAddress
TaskPollSec == 2
IpPollSec == 5

PollSec(kind) == IF kind = "task" THEN TaskPollSec ELSE IpPollSec

\* the longest time since startTime that a wait can observe
MaxElapsed == MaxTimeoutSec + IpPollSec + MaxRequestSec

\* fault: the loop condition is always true
expiredNever(elapsed, timeoutSec) == FALSE

\* the loop condition fails: !(Date.now() - startTime < timeoutMs)
expired(elapsed, timeoutSec) == ~(elapsed < timeoutSec)

\* provisionVm calls waitForTask(node, upid, timeoutSec) or
\* waitForIpAddress(node, vmId, timeoutSec): startTime = Date.now()
BeginWait(kind, timeoutSec) ==
  /\ wait.pc = "idle"
  /\ wait' = [kind |-> kind, timeoutSec |-> timeoutSec, elapsed |-> 0,
              pc |-> "test", error |-> "none"]
  /\ UNCHANGED << store, runner, shutdowns, deleteRequestedFrom >>
  /\ NoObservation

\* the test of the while loop, and the throw after the loop
WaitTest ==
  /\ wait.pc = "test"
  /\ wait' = IF expired(wait.elapsed, wait.timeoutSec)
             THEN [wait EXCEPT !.pc = "thrown",
                               !.error = IF wait.kind = "task"
                                         THEN "Task timed out"
                                         ELSE "Timed out waiting for IP address"]
             ELSE [wait EXCEPT !.pc = "request"]
  /\ UNCHANGED << store, runner, shutdowns, deleteRequestedFrom >>
  /\ NoObservation

\* waitForTask, body of the loop.  GET /nodes/:node/tasks/:upid/status
\* answers that the task is not stopped ("running"), stopped with
\* exitstatus OK, stopped with another exitstatus ("failed"), or the
\* request throws ("error"): the request took seconds seconds
TaskStatus(response, seconds) ==
  LET w == [wait EXCEPT !.elapsed = @ + seconds]
  IN /\ wait.pc = "request"
     /\ wait.kind = "task"
     /\ wait' = CASE response = "OK" -> [w EXCEPT !.pc = "returned"]
                  [] response = "failed" ->
                       [w EXCEPT !.pc = "thrown", !.error = "Task failed"]
                  [] response = "error" ->
                       [w EXCEPT !.pc = "thrown", !.error = "ProxmoxError"]
                  [] OTHER -> [w EXCEPT !.pc = "sleep"]
     /\ UNCHANGED << store, runner, shutdowns, deleteRequestedFrom >>
     /\ NoObservation

\* waitForIpAddress, body of the loop.  getNetworkInterfaces answers an
\* interface other than lo with an IPv4 address outside 127.*
\* ("address"), no such address ("loopback"), or throws ("error"): the call took seconds seconds
GuestInterfaces(response, seconds) ==
  LET w == [wait EXCEPT !.elapsed = @ + seconds]
  IN /\ wait.pc = "request"
     /\ wait.kind = "ip"
     /\ wait' = IF response = "address" THEN [w EXCEPT !.pc = "returned"]
                ELSE [w EXCEPT !.pc = "sleep"]
     /\ UNCHANGED << store, runner, shutdowns, deleteRequestedFrom >>
     /\ NoObservation

\* await new Promise((resolve) => setTimeout(resolve, ...))
WaitSleep ==
  /\ wait.pc = "sleep"
  /\ wait.elapsed + PollSec(wait.kind) <= MaxElapsed
  /\ wait' = [wait EXCEPT !.elapsed = @ + PollSec(wait.kind), !.pc = "test"]
  /\ UNCHANGED << store, runner, shutdowns, deleteRequestedFrom >>
  /\ NoObservation

\* the caller takes the value or the error of the wait
WaitEnds ==
  /\ wait.pc \in {"returned", "thrown"}
  /\ wait' = NoWait
  /\ UNCHANGED << store, runner, shutdowns, deleteRequestedFrom >>
  /\ NoObservation

----------------------------------------------------------------------------
(* Specifications *)

\* the request body of the manual assignment modelled: two adjacent ports
\* inside the game pool
ManualBody == [game |-> GamePoolStart + 1, query |-> GamePoolStart + 2]

\* Admission and scheduling: every job-creating endpoint and one runner,
\* for servers of one game.
Next ==
  \/ CreateServer("lined")
  \/ \E id \in ServerIds, action \in CreateJobActions : CreateJob(id, action)
  \/ \E id \in ServerIds, isOwner \in BOOLEAN : DeleteServer(id, isOwner)
  \/ \E id \in ServerIds : EnableSftp(id)
  \/ \E id \in ServerIds : DisableSftp(id)
  \/ \E id \in ServerIds : ResetSftpPassword(id)
  \/ Poll(1)
  \/ ProcessNext(1)
  \/ \E job \in JobIds, ok \in BOOLEAN : ProvisionVm(1, job, ok)
  \/ \E job \in JobIds, success \in BOOLEAN : FinishJob(1, job, success)

Spec == Init /\ [][Next]_vars

\* Several runners over the same store: each one polls and claims on its
\* own, so the statements of one fall between the read and the claims of
\* another.
NextRunners ==
  \/ CreateServer("lined")
  \/ \E id \in ServerIds, action \in {"start", "stop"} : CreateJob(id, action)
  \/ \E r \in Runners : Poll(r)
  \/ \E r \in Runners : ProcessNext(r)
  \/ \E r \in Runners, job \in JobIds, ok \in BOOLEAN : ProvisionVm(r, job, ok)
  \/ \E r \in Runners, job \in JobIds : FinishJob(r, job, TRUE)

SpecRunners == Init /\ [][NextRunners]_vars

\* Port allocation: creation of servers of every game, the retry loop,
\* manual assignment, SFTP allocation and the release by the delete job,
\* with one runner whose external commands succeed.
NextPorts ==
  \/ \E gameId \in GameIds : CreateServer(gameId)
  \/ \E id \in ServerIds : ManualPorts(id, ManualBody)
  \/ \E id \in ServerIds : DeleteServer(id, TRUE)
  \/ \E id \in ServerIds : EnableSftp(id)
  \/ RetryPortAllocations(1)
  \/ Poll(1)
  \/ ProcessNext(1)
  \/ \E job \in JobIds : ProvisionVm(1, job, TRUE)
  \/ \E job \in JobIds : FinishJob(1, job, TRUE)

SpecPorts == Init /\ [][NextPorts]_vars

\* the actions requested through the generic endpoint in the outcomes
\* specification: one per branch of validateJobAction, getStatusForAction
\* and updateServerStatusAfterJob ("update" stands for the default branch)
OutcomeActions == CreateJobActions \ {"backup", "install-mods"}

\* Job outcomes: one runner whose handlers return success or throw, over
\* servers of one game; the SFTP endpoints queue jobs next to the active
\* job of a server.
NextOutcomes ==
  \/ CreateServer("lined")
  \/ \E id \in ServerIds, action \in OutcomeActions : CreateJob(id, action)
  \/ \E id \in ServerIds : EnableSftp(id)
  \/ \E id \in ServerIds : DisableSftp(id)
  \/ \E id \in ServerIds : ResetSftpPassword(id)
  \/ Poll(1)
  \/ ProcessNext(1)
  \/ \E job \in JobIds : ProvisionVm(1, job, TRUE)
  \/ \E job \in JobIds : FinishJob(1, job, TRUE)
  \/ \E job \in JobIds, message \in ThrownMessages : HandlerThrows(1, job, message)
  \/ \E job \in JobIds : IpAddressTimeout(1, job)

SpecOutcomes == Init /\ [][NextOutcomes]_vars

\* Deletion: the delete endpoint, the generic endpoint and the SFTP enable
\* endpoint, with runners that execute jobs side by side.
NextDeleting ==
  \/ CreateServer("lined")
  \/ \E id \in ServerIds : DeleteServer(id, TRUE)
  \/ \E id \in ServerIds, action \in {"start", "deprovision"} : CreateJob(id, action)
  \/ \E id \in ServerIds : EnableSftp(id)
  \/ \E r \in Runners : Poll(r)
  \/ \E r \in Runners : ProcessNext(r)
  \/ \E r \in Runners, job \in JobIds : ProvisionVm(r, job, TRUE)
  \/ \E r \in Runners, job \in JobIds, success \in BOOLEAN : FinishJob(r, job, success)

SpecDeleting == Init /\ [][NextDeleting]_vars

\* Shutdown: the runner of the API process executes jobs while SIGTERM and
\* SIGINT arrive.
NextShutdown ==
  \/ CreateServer("lined")
  \/ \E id \in ServerIds, action \in {"start", "stop"} : CreateJob(id, action)
  \/ Poll(1)
  \/ ProcessNext(1)
  \/ \E job \in JobIds : ProvisionVm(1, job, TRUE)
  \/ \E job \in JobIds : FinishJob(1, job, TRUE)
  \/ \E sig \in Signals : Signal(sig)
  \/ \E sig \in Signals : StopWaitEnds(sig)
  \/ \E sig \in Signals : CloseDatabase(sig)

SpecShutdown == Init /\ [][NextShutdown]_vars

\* Job rows: one runner whose handlers log lines, then succeed or throw.
NextLogs ==
  \/ CreateServer("lined")
  \/ \E id \in ServerIds : CreateJob(id, "start")
  \/ Poll(1)
  \/ ProcessNext(1)
  \/ \E job \in JobIds : HandlerLog(1, job)
  \/ \E job \in JobIds : ProvisionVm(1, job, TRUE)
  \/ \E job \in JobIds : FinishJob(1, job, TRUE)
  \/ \E job \in JobIds : HandlerThrows(1, job, "exception")

SpecLogs == Init /\ [][NextLogs]_vars

\* Cleanup handlers: servers are provisioned and started, then
\* deprovisioned or deleted by jobs whose steps succeed, fail or throw.
CleanupActions == {"start", "deprovision", "delete"}

NextCleanup ==
  \/ CreateServer("lined")
  \/ \E id \in ServerIds, action \in CleanupActions : CreateJob(id, action)
  \/ \E id \in ServerIds : DeleteServer(id, TRUE)
  \/ Poll(1)
  \/ ProcessNext(1)
  \/ \E job \in JobIds : ProvisionVm(1, job, TRUE)
  \/ \E job \in JobIds : FinishJob(1, job, TRUE)
  \/ \E job \in JobIds, o \in DeleteOutcomes : RunDeprovision(1, job, o)
  \/ \E job \in JobIds, o \in DeleteOutcomes : RunDelete(1, job, o)

SpecCleanup == Init /\ [][NextCleanup]_vars

\* Provisioning: one runner whose provision jobs meet every outcome of
\* the calls to the virtualization backend, the gateway and the playbook.
NextProvision ==
  \/ CreateServer("lined")
  \/ Poll(1)
  \/ ProcessNext(1)
  \/ \E job \in JobIds, vlanTag \in BOOLEAN,
        failing \in {"none"} \cup {ProvisionOrder[i] : i \in DOMAIN ProvisionOrder} :
       ProvisionVmCall(1, job, vlanTag, failing)
  \/ \E job \in JobIds, rules \in CallOutcomes, playbook \in PlaybookOutcomes :
       RunProvision(1, job, rules, playbook)

SpecProvision == Init /\ [][NextProvision]_vars

\* Bounded waits: the two polling loops with every timeout up to
\* MaxTimeoutSec and every answer of the backend.
WaitStep ==
  \/ WaitTest
  \/ \E response \in {"running", "OK", "failed", "error"}, seconds \in 0..MaxRequestSec :
       TaskStatus(response, seconds)
  \/ \E response \in {"address", "loopback", "error"}, seconds \in 0..MaxRequestSec :
       GuestInterfaces(response, seconds)
  \/ WaitSleep
  \/ WaitEnds

NextWaits ==
  \/ \E kind \in {"task", "ip"}, timeoutSec \in 0..MaxTimeoutSec :
       BeginWait(kind, timeoutSec)
  \/ WaitStep

\* every request to the backend is answered or fails, every timer fires,
\* and the event loop runs the continuation of each
SpecWaits == Init /\ [][NextWaits]_vars /\ WF_vars(WaitStep)

\* Recovery of port allocation: the port specification without the SFTP
\* endpoint, for servers of the game whose block is the widest.  A poll
\* that has read the queue goes through it.
NextRetry ==
  \/ CreateServer("spread")
  \/ \E id \in ServerIds : ManualPorts(id, ManualBody)
  \/ \E id \in ServerIds : DeleteServer(id, TRUE)
  \/ RetryPortAllocations(1)
  \/ Poll(1)
  \/ ProcessNext(1)
  \/ \E job \in JobIds : ProvisionVm(1, job, TRUE)
  \/ \E job \in JobIds : FinishJob(1, job, TRUE)

SpecRetry ==
  /\ Init
  /\ [][NextRetry]_vars
  /\ WF_vars(ProcessNext(1))

\* The job queue: requests that queue jobs, and the runner of the process,
\* which keeps running.  Its poll timer keeps firing and its loop goes
\* through the jobs it read; every handler run ends, with either outcome.
NextQueue ==
  \/ CreateServer("lined")
  \/ \E id \in ServerIds, action \in {"start", "stop"} : CreateJob(id, action)
  \/ Poll(1)
  \/ ProcessNext(1)
  \/ \E job \in JobIds, ok \in BOOLEAN : ProvisionVm(1, job, ok)
  \/ \E job \in JobIds, ok \in BOOLEAN : FinishJob(1, job, ok)

SpecQueue ==
  /\ Init
  /\ [][NextQueue]_vars
  /\ WF_vars(Poll(1))
  /\ WF_vars(ProcessNext(1))
  /\ \A job \in JobIds :
       /\ WF_vars(\E ok \in BOOLEAN : ProvisionVm(1, job, ok))
       /\ WF_vars(\E ok \in BOOLEAN : FinishJob(1, job, ok))

\* Stopping: the runner of the process executes jobs and retries port
\* allocations until stop() is called on it.  A poll that has read the
\* queue goes through it.
NextStop ==
  \/ CreateServer("spread")
  \/ \E id \in ServerIds, action \in {"start", "stop"} : CreateJob(id, action)
  \/ \E id \in ServerIds : DeleteServer(id, TRUE)
  \/ RetryPortAllocations(1)
  \/ Poll(1)
  \/ ProcessNext(1)
  \/ StopRunner(1)
  \/ \E job \in JobIds : ProvisionVm(1, job, TRUE)
  \/ \E job \in JobIds, ok \in BOOLEAN : FinishJob(1, job, ok)

SpecStop ==
  /\ Init
  /\ [][NextStop]_vars
  /\ WF_vars(ProcessNext(1))

\* Server statuses: servers of the game whose block is the widest, so that
\* some wait in PendingPorts; every action of the generic job endpoint, the
\* delete endpoint, manual assignment, the retry loop and one runner whose
\* handlers succeed or fail.
NextStatuses ==
  \/ CreateServer("spread")
  \/ \E id \in ServerIds, action \in CreateJobActions : CreateJob(id, action)
  \/ \E id \in ServerIds : DeleteServer(id, TRUE)
  \/ \E id \in ServerIds : ManualPorts(id, ManualBody)
  \/ RetryPortAllocations(1)
  \/ Poll(1)
  \/ ProcessNext(1)
  \/ \E job \in JobIds, ok \in BOOLEAN : ProvisionVm(1, job, ok)
  \/ \E job \in JobIds, success \in BOOLEAN : FinishJob(1, job, success)

SpecStatuses == Init /\ [][NextStatuses]_vars

\* Soft deletion and the allocation table: every operation that writes
\* allocation rows (creation, manual assignment, the retry pass, the SFTP
\* endpoint) next to delete jobs, for servers of the game whose block does
\* not fit twice into the pool.
NextDeleted ==
  \/ CreateServer("spread")
  \/ \E id \in ServerIds : ManualPorts(id, ManualBody)
  \/ \E id \in ServerIds : DeleteServer(id, TRUE)
  \/ \E id \in ServerIds : EnableSftp(id)
  \/ RetryPortAllocations(1)
  \/ Poll(1)
  \/ ProcessNext(1)
  \/ \E job \in JobIds : ProvisionVm(1, job, TRUE)
  \/ \E job \in JobIds, success \in BOOLEAN : FinishJob(1, job, success)

SpecDeleted == Init /\ [][NextDeleted]_vars

----------------------------------------------------------------------------
(* Properties *)

\* the job rows whose status is Running
InFlight == {j \in 1..Len(jobs) : jobs[j].status = "running"}

\* C1: every server id has at most one job whose status is Queued or
\* Running, whichever endpoint created the jobs.
C1_AtMostOneActiveJob ==
  \A id \in ServerIds : Cardinality(activeJob(id)) <= 1

\* C2: no two port-allocation rows have the same (pool, port).
C2_PoolPortUnique ==
  \A a, b \in port_allocations : (a.pool = b.pool /\ a.port = b.port) => a = b

\* C2 happens: two servers own game ports, a port of the sftp pool is
\* allocated, and one server holds manually assigned ports.
C2_Witness ==
  /\ \E a, b \in port_allocations :
       a.pool = "game" /\ b.pool = "game" /\ a.serverId # b.serverId
  /\ \E c \in port_allocations : c.pool = "sftp"
  /\ \E id \in ServerIds :
       /\ servers[id].allocatedPorts = ManualBody
       /\ \E a \in port_allocations : a.serverId = id /\ a.port = ManualBody.game

\* C3: a job row is inserted as Queued, and its status changes only from
\* Queued to Running and from Running to Completed or Failed; rows are
\* never removed.
C3_StatusSequence ==
  [][/\ Len(jobs') >= Len(jobs)
     /\ \A j \in 1..Len(jobs') :
          IF j > Len(jobs) THEN jobs'[j].status = "queued"
          ELSE \/ jobs'[j].status = jobs[j].status
               \/ << jobs[j].status, jobs'[j].status >> \in
                    {<< "queued", "running" >>, << "running", "completed" >>,
                     << "running", "failed" >>}]_vars

\* C3 happens: one job has ended Completed and another one Failed.
C3_Witness ==
  \E j, k \in 1..Len(jobs) :
    jobs[j].status = "completed" /\ jobs[k].status = "failed"

\* C4: with one runner, at most maxConcurrentJobs jobs are in its active
\* set and at most that many rows are Running; a Queued job leaves Queued
\* only to become Running, and only while fewer than maxConcurrentJobs
\* jobs are in flight.
C4_InFlightBound ==
  /\ [](Cardinality(activeJobs[1]) <= MaxConcurrentJobs)
  /\ [](Cardinality(InFlight) <= MaxConcurrentJobs)
  /\ [][\A j \in 1..Len(jobs) :
          (jobs[j].status = "queued" /\ jobs'[j].status # "queued")
            => /\ jobs'[j].status = "running"
               /\ Cardinality(InFlight) < MaxConcurrentJobs]_vars

\* C4 happens: maxConcurrentJobs jobs are in flight while a job of another
\* server waits Queued.
C4_Witness ==
  /\ Cardinality(activeJobs[1]) = MaxConcurrentJobs
  /\ \E j \in InFlight, k \in 1..Len(jobs) :
       jobs[k].status = "queued" /\ jobs[k].serverId # jobs[j].serverId

\* C5: executeJob is called at most once for every job; an attempt whose
\* startJob finds the job no longer Queued changes no record, no active
\* set, and calls nothing.
C5_ExecutedAtMostOnce ==
  /\ [](\A j \in JobIds : executions[j] <= 1)
  /\ [][\A r \in Runners :
          (/\ queuedJobs[r] # << >>
           /\ queuedJobs'[r] = Tail(queuedJobs[r])
           /\ jobs[Head(queuedJobs[r])].status # "queued")
            => UNCHANGED << store, activeJobs, contexts, executions >>]_vars

\* C5 happens: a runner is about to claim a job it read as Queued, which
\* another runner has claimed and executed in the meantime.
C5_Witness ==
  \E r \in Runners :
    /\ queuedJobs[r] # << >>
    /\ jobs[Head(queuedJobs[r])].status \in {"running", "completed", "failed"}
    /\ executions[Head(queuedJobs[r])] = 1
    /\ Head(queuedJobs[r]) \notin activeJobs[r]

\* the default ports of a game, and the ports one call returned for it
DefaultPorts(gameId) ==
  {GamePorts[gameId][k].port : k \in 1..Len(GamePorts[gameId])}

ReturnedPorts(call) ==
  {call.ports[GamePorts[call.gameId][k].name] : k \in 1..Len(GamePorts[call.gameId])}

\* S is a run of n distinct consecutive integers
ConsecutiveRun(S, n) == Cardinality(S) = n /\ Max(S) - Min(S) = n - 1

BlockSpan(gameId) == Max(DefaultPorts(gameId)) - Min(DefaultPorts(gameId)) + 1

\* C7: for every successful allocation the returned ports lie inside the
\* pool, none was allocated in the pool before, and the block they span is
\* the lowest-starting block of the pool that is free as a whole.
C7_LowestFreeBlock ==
  \A i \in 1..Len(lastAlloc) :
    LET call == lastAlloc[i]
        start == Min(ReturnedPorts(call))
        size == BlockSpan(call.gameId)
    IN call.ok =>
         /\ \A p \in ReturnedPorts(call) :
              GamePoolStart <= p /\ p <= GamePoolEnd /\ p \notin call.allocated
         /\ \A p \in start..(start + size - 1) :
              p <= GamePoolEnd /\ p \notin call.allocated
         /\ \A s \in GamePoolStart..(start - 1) :
              \E p \in s..(s + size - 1) : p \in call.allocated

\* C7 happens: the block chosen does not start at the first free port of
\* the pool, because the block starting there is not free as a whole.
C7_Witness ==
  \E i \in 1..Len(lastAlloc) :
    /\ lastAlloc[i].ok
    /\ GamePoolStart \notin lastAlloc[i].allocated
    /\ Min(ReturnedPorts(lastAlloc[i])) > GamePoolStart

\* C8: a step that inserts a server row leaves it PendingPorts with no
\* allocation rows and no new job when the allocation failed, and Pending
\* with a row for every named port and exactly one new Queued provision job
\* when it succeeded.
C8_CreationOutcome ==
  [][NextServerId' = NextServerId + 1 =>
       LET id == NextServerId
           call == lastAlloc'[1]
           rows == {a \in port_allocations' : a.serverId = id}
       IN IF ~call.ok
          THEN /\ servers'[id].status = "pending_ports"
               /\ rows = {}
               /\ jobs' = jobs
          ELSE /\ servers'[id].status = "pending"
               /\ \A k \in 1..Len(GamePorts[call.gameId]) :
                    \E a \in rows :
                      /\ a.purpose = GamePorts[call.gameId][k].name
                      /\ a.port = call.ports[a.purpose]
               /\ jobs' = Append(jobs, [serverId |-> id, action |-> "provision",
                                        status |-> "queued", error |-> "none",
                                        logs |-> << >>])]_vars

\* the validation table: the server statuses an action may be requested in
TableAllows(action, status) ==
  CASE action = "provision" -> status = "pending"
    [] action = "start" -> status \in {"stopped", "error"}
    [] action = "stop" -> status = "running"
    [] action = "backup" -> status \in {"running", "stopped"}
    [] action = "update" -> status = "stopped"
    [] action = "deprovision" -> status \notin {"running", "provisioning"}
    [] OTHER -> TRUE

\* C9: a job-creation request answered 409 leaves the servers, jobs,
\* port_allocations and sftp_access tables as they were.
C9_RejectedWritesNothing ==
  [][lastCreateJob'.code = 409 => UNCHANGED store]_vars

\* C9 happens: a request for a server in Provisioning was rejected.
C9_Witness ==
  /\ lastCreateJob.code = 409
  /\ servers[lastCreateJob.serverId].status = "provisioning"

\* C10: a job-creation request answered 201 inserted one job for the
\* server, with an action the validation table allows in the status the
\* server had, and the server had no Queued or Running job.
C10_CreatedJobsAreValid ==
  [][lastCreateJob'.code = 201 =>
       LET id == lastCreateJob'.serverId
       IN /\ Len(jobs') = Len(jobs) + 1
          /\ jobs'[Len(jobs')].serverId = id
          /\ jobs'[Len(jobs')].status = "queued"
          /\ TableAllows(jobs'[Len(jobs')].action, getServerById(id).status)
          /\ activeJob(id) = {}]_vars

\* C10 happens: the endpoint created a start job.
C10_Witness ==
  /\ lastCreateJob.code = 201
  /\ jobs[Len(jobs)].action = "start"
  /\ jobs[Len(jobs)].serverId = lastCreateJob.serverId

\* the job a step ended, its action and its server
EndedJob == lastResult'.job
EndedAction == jobs[EndedJob].action
EndedServer == jobs[EndedJob].serverId

\* C11: a job that ends with a successful result leaves its server Stopped
\* after provision, Running after start, Stopped after stop and Pending
\* after deprovision; after any other action the server status is the one
\* it had before the job ended.
C11_SuccessPolicy ==
  [][EndedJob # 0 /\ lastResult'.success =>
       servers'[EndedServer].status =
         CASE EndedAction = "provision" -> "stopped"
           [] EndedAction = "start" -> "running"
           [] EndedAction = "stop" -> "stopped"
           [] EndedAction = "deprovision" -> "pending"
           [] OTHER -> servers[EndedServer].status]_vars

\* a stop job has just succeeded and left its server Stopped
C11_Witness ==
  /\ lastResult.job # 0
  /\ lastResult.success
  /\ jobs[lastResult.job].action = "stop"
  /\ servers[jobs[lastResult.job].serverId].status = "stopped"

C13_StatusAgreesWithResult ==
  lastResult.job # 0 =>
    LET row == jobs[lastResult.job]
    IN IF lastResult.success
       THEN row.status = "completed" /\ row.error = "none"
       ELSE row.status = "failed" /\ row.error \notin {"", "none"}

\* C19: when a statement of a handler throws, processJob receives a
\* result with success = false whose error is the message thrown, the job
\* row gets a terminal status, the job leaves the runner's active set and
\* the post-job policy is applied to the server.
C19_ExceptionBecomesResult ==
  lastResult.thrown # "none" =>
    LET job == lastResult.job
        id == jobs[job].serverId
    IN /\ ~lastResult.success
       /\ lastResult.error = lastResult.thrown
       /\ jobs[job].status \in {"completed", "failed"}
       /\ \A r \in Runners : job \notin activeJobs[r]
       /\ jobs[job].action # "delete" /\ ServerFound(id) =>
            servers[id].status = "error"

\* a handler has just thrown an exception with a message
C19_Witness ==
  /\ lastResult.thrown = "exception"
  /\ jobs[lastResult.job].status = "failed"
  /\ jobs[lastResult.job].error = "exception"

\* C14: releasing the ports of a server removes every allocation row of
\* that server, in the game pool and in the SFTP pool, and no row of any
\* other server; releasing again, or releasing for a server without rows,
\* changes nothing.  The delete job releases the ports of its server in
\* this way.
C14_ReleaseRemovesAll ==
  /\ [](\A id \in ServerIds :
          LET released == releasePorts(port_allocations, id)
          IN /\ \A r \in released : r.serverId # id
             /\ released = {r \in port_allocations : r.serverId # id}
             /\ releasePorts(released, id) = released)
  /\ [][EndedJob # 0 /\ lastResult'.success /\ EndedAction = "delete" =>
         port_allocations' =
           {r \in port_allocations : r.serverId # EndedServer}]_vars

\* a delete job has just released a game port and an SFTP port of its
\* server while another server keeps its rows
C14_Witness ==
  /\ lastResult.job # 0
  /\ lastResult.success
  /\ jobs[lastResult.job].action = "delete"
  /\ servers[jobs[lastResult.job].serverId].allocatedPorts # NoPorts
  /\ \E job \in DOMAIN jobs :
       /\ jobs[job].serverId = jobs[lastResult.job].serverId
       /\ jobs[job].action = "setup-sftp"
       /\ jobs[job].status = "completed"
  /\ \A r \in port_allocations : r.serverId # jobs[lastResult.job].serverId
  /\ port_allocations # {}

\* C15: a soft-deleted server is returned by none of the lookups (by id,
\* all servers, by status, by owner, by guild); whatever happens later it
\* stays soft-deleted and its row stays in the table.
C15_SoftDeletedStaysHidden ==
  /\ [](\A id \in ServerIds :
          servers[id].deleted =>
            /\ ~ServerFound(id)
            /\ id \notin getAllServers
            /\ \A status \in ServerStatus : id \notin getServersByStatus(status)
            /\ id \notin getServersByOwner(OwnerId)
            /\ id \notin getServersByGuild(GuildId))
  /\ [][\A id \in ServerIds :
          servers[id].deleted =>
            servers'[id].deleted /\ servers'[id].status # "none"]_vars

\* a request for a job of a soft-deleted server has just been answered 404
C15_Witness ==
  /\ lastCreateJob.code = 404
  /\ servers[lastCreateJob.serverId].deleted
  /\ servers[lastCreateJob.serverId].status # "none"

\* a step of the retry loop: it calls the allocator and inserts no server
RetryStep ==
  /\ lastAlloc' # << >>
  /\ \A id \in ServerIds :
       (servers[id].status = "none") = (servers'[id].status = "none")

\* the game-pool rows of a server
GameRows(table, id) == {r \in table : r.serverId = id /\ r.pool = "game"}

\* C16: in a retry pass a pending_ports server becomes Pending exactly when
\* its allocation succeeds in that pass (a free block was found and its
\* rows could be inserted); its rows are then the ports returned and the
\* port map is stored on its record.  Every other server, every row of
\* every other server and the jobs table are left as they were.
C16_RetryPass ==
  [][RetryStep =>
       LET pendingServers == NewestFirst(getServersByStatus("pending_ports"))
           succeeded(k) ==
             /\ lastAlloc'[k].ok
             /\ Cardinality(ReturnedPorts(lastAlloc'[k])) =
                  Len(GamePorts[lastAlloc'[k].gameId])
       IN /\ jobs' = jobs
          /\ sftp_access' = sftp_access
          /\ Len(lastAlloc') = Len(pendingServers)
          /\ \A k \in 1..Len(pendingServers) :
               LET id == pendingServers[k]
               IN IF succeeded(k)
                  THEN /\ servers'[id] =
                            [servers[id] EXCEPT
                               !.status = "pending",
                               !.allocatedPorts = lastAlloc'[k].ports]
                       /\ {r.port : r \in GameRows(port_allocations', id)} =
                            ReturnedPorts(lastAlloc'[k])
                  ELSE /\ servers'[id] = servers[id]
                       /\ GameRows(port_allocations', id) = {}
          /\ \A id \in ServerIds :
               servers[id].status # "pending_ports" \/ servers[id].deleted =>
                 /\ servers'[id] = servers[id]
                 /\ {r \in port_allocations' : r.serverId = id} =
                      {r \in port_allocations : r.serverId = id}]_vars

\* a retry pass has just allocated the ports of a server: the server is
\* Pending with a port map and rows, and no job was created for it
C16_Witness ==
  /\ lastAlloc # << >>
  /\ \E id \in ServerIds :
       /\ servers[id].status = "pending"
       /\ servers[id].allocatedPorts = lastAlloc[Len(lastAlloc)].ports
       /\ GameRows(port_allocations, id) # {}
       /\ getJobsByServer(id) = {}

\* C17: a server whose status is Deleting keeps that status in every
\* later step, whatever jobs are created or end.
C17_DeletingIsTerminal ==
  [][\A id \in ServerIds :
       servers[id].status = "deleting" => servers'[id].status = "deleting"]_vars

\* C18: when the guest agent reports no IPv4 address in time, the
\* provision job ends Failed with an error that names the timeout, the
\* server goes to Error, the instance that was cloned and started is not
\* destroyed, and neither an instance id nor an address is stored on the
\* server record.
C18_IpTimeout ==
  [][EndedJob # 0 /\ lastSteps' # << >>
       /\ lastSteps'[Len(lastSteps')] = Step("waitForIpAddress", "thrown") =>
       /\ EndedAction = "provision"
       /\ ~lastResult'.success
       /\ lastResult'.error =
            "VM provisioning failed: Timed out waiting for IP address"
       /\ jobs'[EndedJob].status = "failed"
       /\ jobs'[EndedJob].error = lastResult'.error
       /\ lastVmCalls' \cap {"stopVm", "deleteVm"} = {}
       /\ servers'[EndedServer] =
            IF ServerFound(EndedServer)
            THEN [servers[EndedServer] EXCEPT !.status = "error"]
            ELSE servers[EndedServer]
       /\ ~servers'[EndedServer].vmId
       /\ ~servers'[EndedServer].internalAddress]_vars

\* a provision job has just failed on the wait for the address of an
\* instance it had cloned and started
C18_Witness ==
  /\ lastResult.job # 0
  /\ lastVmCalls = {"cloneVm", "startVm"}
  /\ jobs[lastResult.job].action = "provision"
  /\ jobs[lastResult.job].status = "failed"
  /\ servers[jobs[lastResult.job].serverId].status = "error"
  /\ ~servers[jobs[lastResult.job].serverId].vmId

\* C20: whenever a stop() call resolves, the first one or a repeated one,
\* the runner has no job in flight; so the store is never closed while a
\* job executes.
C20_StopResolvesIdle ==
  /\ [][\A sig \in Signals :
          shutdowns[sig] \in {"idle", "stop"} /\ shutdowns'[sig] = "close" =>
            activeJobs'[1] = {}]_vars
  /\ [](\A sig \in Signals : shutdowns[sig] = "closed" => activeJobs[1] = {})

\* xs is a prefix of ys
IsPrefix(xs, ys) ==
  Len(xs) <= Len(ys) /\ \A k \in 1..Len(xs) : xs[k] = ys[k]

\* C21: a job row that is Completed or Failed never changes again; the
\* log of a job grows only in steps in which the job is Running before or
\* after the step, every earlier entry keeps its place, and a log call of
\* a handler adds exactly one entry at the end.
C21_TerminalJobsFrozen ==
  /\ [][\A j \in DOMAIN jobs :
          /\ jobs[j].status \in {"completed", "failed"} => jobs'[j] = jobs[j]
          /\ IsPrefix(jobs[j].logs, jobs'[j].logs)
          /\ jobs'[j].logs # jobs[j].logs =>
               jobs[j].status = "running" \/ jobs'[j].status = "running"
          /\ jobs'[j].logs # jobs[j].logs /\ jobs'[j].status = jobs[j].status =>
               jobs'[j].logs = Append(jobs[j].logs, "output")]_vars
  /\ [](\A j \in DOMAIN jobs : jobs[j].status = "queued" => jobs[j].logs = << >>)

\* a job has ended with the lines its handler logged, and a later job is
\* Running and has logged a line
C21_Witness ==
  \E j, k \in DOMAIN jobs :
    /\ j < k
    /\ jobs[j].status = "failed"
    /\ jobs[j].logs = << "Starting", "output", "Error during" >>
    /\ jobs[k].status = "running"
    /\ jobs[k].logs = << "Starting", "output" >>

\* the handler ran the step named name with this outcome
Ran(steps, name, outcome) ==
  \E i \in DOMAIN steps : steps[i] = Step(name, outcome)

\* C22: when a deprovision job that destroyed the instance of its server
\* ends with a successful result, the server row carries neither an
\* instance id nor an internal address.
C22_DeprovisionClearsInstance ==
  [][/\ EndedJob # 0
     /\ EndedAction = "deprovision"
     /\ lastResult'.success
     /\ Ran(lastSteps', "destroyVm", "ok")
     => /\ ~servers'[EndedServer].vmId
        /\ ~servers'[EndedServer].internalAddress]_vars

\* the names of the steps, in the order in which the handler ran them
StepOrder(steps) == [i \in DOMAIN steps |-> steps[i].step]

\* C23: a deprovision job runs the deprovision entry point, the removal
\* of the forwarding rules and the destruction of the instance in this
\* order; it fails exactly when the destruction of the instance fails, and
\* the server then goes to Error.
C23_DeprovisionSteps ==
  [][/\ EndedJob # 0
     /\ EndedAction = "deprovision"
     /\ contexts[EndedJob].phase = "handler"
     => /\ StepOrder(lastSteps') \in
             { << "deprovision", "deletePortForwardingRules", "destroyVm" >>,
               << "deprovision", "deletePortForwardingRules" >>,
               << "deletePortForwardingRules", "destroyVm" >>,
               << "deletePortForwardingRules" >> }
        /\ lastResult'.success <=> ~Ran(lastSteps', "destroyVm", "thrown")
        /\ ~lastResult'.success /\ ServerFound(EndedServer) =>
             servers'[EndedServer].status = "error"]_vars

\* C24: a delete job releases every port allocation of its server,
\* soft-deletes the record and ends Completed whichever of its earlier
\* steps fail, by a failed result or by a thrown error.
C24_DeleteNeverBlocked ==
  [][/\ EndedJob # 0
     /\ EndedAction = "delete"
     /\ contexts[EndedJob].phase = "handler"
     => /\ lastResult'.success
        /\ jobs'[EndedJob].status = "completed"
        /\ {a \in port_allocations' : a.serverId = EndedServer} = {}
        /\ servers'[EndedServer].deleted]_vars

\* C25: the delete job of a server that was Running when DELETE
\* /servers/:id accepted the request runs the stop entry point first.
C25_StopRunsFirst ==
  [][/\ EndedJob # 0
     /\ EndedAction = "delete"
     /\ contexts[EndedJob].phase = "handler"
     /\ deleteRequestedFrom[EndedServer] = "running"
     => /\ lastSteps' # << >>
        /\ lastSteps'[1].step = "stop"]_vars

\* C26: a provision job ends with a successful result exactly when the
\* provision entry point succeeded, which it runs only after the instance
\* step, if there was one, has succeeded; a gateway error while the
\* forwarding rules are created changes neither the steps that follow nor
\* the result.
C26_ForwardingNeverFails ==
  [][/\ EndedJob # 0
     /\ EndedAction = "provision"
     /\ contexts[EndedJob].phase # "missing"
     => /\ lastResult'.success <=> Ran(lastSteps', "provision", "ok")
        /\ contexts[EndedJob].phase = "handler" =>
             /\ contexts[EndedJob].server.internalAddress
             /\ \E rules \in CallOutcomes, playbook \in PlaybookOutcomes :
                  /\ lastSteps' = << Step("createPortForwardingRules", rules),
                                     Step("provision", playbook) >>
                  /\ jobs'[EndedJob].status =
                       IF playbook = "ok" THEN "completed" ELSE "failed"
        /\ contexts[EndedJob].phase = "vm" =>
             /\ ~lastResult'.success
             /\ ~Ran(lastSteps', "createPortForwardingRules", "ok")
             /\ ~Ran(lastSteps', "createPortForwardingRules", "thrown")]_vars

\* a provision job has ended Completed although the creation of the
\* forwarding rules threw
C26_Witness ==
  /\ lastResult.job # 0
  /\ lastResult.success
  /\ jobs[lastResult.job].action = "provision"
  /\ jobs[lastResult.job].status = "completed"
  /\ Ran(lastSteps, "createPortForwardingRules", "thrown")
  /\ servers[jobs[lastResult.job].serverId].status = "stopped"

\* the order of the remote calls of VM provisioning as the specification
\* lists it
ListedOrder ==
  << "cloneVm", "waitForTask(clone)", "configureVm", "resizeDisk",
     "configureCloudInit", "configureNetwork", "startVm",
     "waitForTask(start)", "waitForIpAddress" >>

\* C27: VM provisioning issues, after it has drawn the instance id, the
\* calls clone, wait for the clone task, hardware configuration, disk
\* resize, first-boot configuration, network placement, start, wait for the
\* start task and guest-IP discovery in this order; a failure of a call
\* other than the disk resize is the last call issued and nothing is
\* stored, and with no such failure all nine calls are issued and the
\* instance id and address are stored.
C27_ProvisionOrder ==
  [][\A job \in DOMAIN jobs :
       contexts[job].phase = "vm" /\ contexts'[job].phase # "vm"
       /\ lastSteps' # << >> /\ lastSteps'[1] = Step("getNextVmId", "ok") =>
         LET calls == Tail(lastSteps')
             aborted == \E i \in DOMAIN calls :
                          calls[i].outcome = "thrown" /\ calls[i].step # "resizeDisk"
         IN /\ IsPrefix(StepOrder(calls), ListedOrder)
            /\ \A i \in DOMAIN calls :
                 calls[i].outcome = "thrown" /\ calls[i].step # "resizeDisk" =>
                   i = Len(calls)
            /\ aborted =>
                 /\ contexts'[job].phase = "none"
                 /\ jobs'[job].status = "failed"
                 /\ ~servers'[jobs[job].serverId].vmId
            /\ ~aborted =>
                 /\ StepOrder(calls) = ListedOrder
                 /\ contexts'[job].phase = "handler"
                 /\ contexts'[job].server.vmId]_vars

\* C28: a wait in progress ends, by a return or by a thrown error; the
\* task wait returns only on a task stopped with exit status OK, the
\* guest-IP wait only on an address, and a request is issued only while
\* less than the bound had elapsed at the test of the loop, so that a wait
\* that has seen the bound elapse throws its timeout error at the next
\* test.
C28_WaitsEnd ==
  /\ (wait.pc # "idle") ~> (wait.pc \in {"returned", "thrown"})
  /\ [][/\ wait.pc = "test" =>
             wait'.pc = IF wait.elapsed < wait.timeoutSec THEN "request"
                        ELSE "thrown"
        /\ wait.pc = "test" /\ wait'.pc = "thrown" =>
             wait'.error = IF wait.kind = "task" THEN "Task timed out"
                           ELSE "Timed out waiting for IP address"
        /\ wait.pc = "request" /\ wait'.pc = "thrown" =>
             wait.kind = "task" /\ wait'.error \in {"Task failed", "ProxmoxError"}
        /\ wait.pc = "sleep" => wait'.elapsed > wait.elapsed]_vars
  /\ [](wait.elapsed <= wait.timeoutSec + PollSec(wait.kind) + MaxRequestSec)

\* a guest-IP wait has thrown its timeout error after the bound elapsed,
\* having polled more than once
C28_Witness ==
  /\ wait.kind = "ip"
  /\ wait.pc = "thrown"
  /\ wait.error = "Timed out waiting for IP address"
  /\ wait.timeoutSec > IpPollSec
  /\ wait.elapsed >= wait.timeoutSec

\* a block of the size the game of server id needs lies inside the game
\* pool and is free as a whole, and the named ports of the game are distinct
Fits(id) ==
  LET gameId == servers[id].gameId
      taken == {a.port : a \in {b \in port_allocations : b.pool = "game"}}
  IN /\ Cardinality(DefaultPorts(gameId)) = Len(GamePorts[gameId])
     /\ \E start \in GamePoolStart..GamePoolEnd :
          \A p \in start..(start + BlockSpan(gameId) - 1) :
            p <= GamePoolEnd /\ p \notin taken

\* the retry timer of runner 1 has something to do: retryPortAllocations()
\* passes its early return and finds a PendingPorts server
RetryDue ==
  /\ running[1]
  /\ queuedJobs[1] = << >>
  /\ getServersByStatus("pending_ports") # {}

\* weak fairness of the retry tick: a pass that stays due is made again
\* and again
RetryTickFair ==
  []<>(~RetryDue) \/ []<><<RetryPortAllocations(1)>>_vars

Terminal(j) == j \in DOMAIN jobs /\ jobs[j].status \in {"completed", "failed"}

\* C30: when the runner keeps running, its polls are weakly fair and every
\* handler run ends, every job that is Queued or Running is eventually
\* Completed or Failed.
C30_QueuedJobsEnd ==
  \A j \in JobIds :
    (j \in DOMAIN jobs /\ jobs[j].status \in {"queued", "running"}) ~> Terminal(j)

\* every job of a full table has ended, the last one after one execution,
\* and jobs have ended with either outcome
C30_Witness ==
  /\ Len(jobs) = MaxJobs
  /\ \A j \in JobIds : Terminal(j)
  /\ \E j, k \in JobIds : jobs[j].status = "completed" /\ jobs[k].status = "failed"
  /\ executions[MaxJobs] = 1

\* every handler run ends: no job stays in the in-flight set of the runner
\* for ever (processJob reaches its finally block)
HandlerRunsEnd == \A job \in JobIds : []<>(job \notin activeJobs[1])

\* C31: once stop() has been called on the runner, no Queued job is claimed
\* (every Queued job stays Queued), no job joins the jobs in flight, no
\* retry pass runs and no PendingPorts server is promoted; when every
\* handler run ends, every job then in flight reaches Completed or Failed.
C31_StoppedRunnerClaimsNothing ==
  /\ [][~running[1] =>
          /\ \A j \in DOMAIN jobs :
               jobs[j].status = "queued" => jobs'[j].status = "queued"
          /\ activeJobs'[1] \subseteq activeJobs[1]
          /\ ~RetryStep
          /\ \A id \in ServerIds :
               servers[id].status = "pending_ports" =>
                 servers'[id].status \in {"pending_ports", "deleting"}]_vars
  /\ HandlerRunsEnd =>
       \A j \in JobIds : (~running[1] /\ j \in activeJobs[1]) ~> Terminal(j)

\* the runner is stopped and the job that was in flight has just ended,
\* while another job is still Queued
C31_Witness ==
  /\ ~running[1]
  /\ activeJobs[1] = {}
  /\ lastResult.job # 0
  /\ Terminal(lastResult.job)
  /\ \E j \in DOMAIN jobs : jobs[j].status = "queued"

\* C32: a setup-sftp or reset-sftp-password job whose server row holds no
\* temporary secret fails and runs no playbook; when the job succeeds the
\* stored config holds no secret; when the playbook fails the stored secret
\* is left as it was.
C32_SecretErasedOnSuccess ==
  [][EndedJob # 0 /\ EndedAction \in {"setup-sftp", "reset-sftp-password"}
       /\ contexts[EndedJob].phase = "handler" =>
       /\ ~contexts[EndedJob].server.sftpPassword =>
            ~lastResult'.success /\ lastSteps' = << >>
       /\ lastResult'.success => ~servers'[EndedServer].sftpPassword
       /\ ~lastResult'.success =>
            servers'[EndedServer].sftpPassword = servers[EndedServer].sftpPassword]_vars

\* the port numbers in the stored allocated-port map of server id
StoredPorts(id) == {servers[id].allocatedPorts[n] : n \in PortNames} \ {0}

\* C33: two servers that exist and are not soft-deleted have no port number
\* in common in their stored allocated-port maps.
C33_StoredPortsDisjoint ==
  \A a, b \in ServerIds :
    (a # b /\ ServerFound(a) /\ ServerFound(b)) =>
      StoredPorts(a) \cap StoredPorts(b) = {}

\* the stored port map of server id has a port for every port name of its
\* game
HasAllPorts(table, id) ==
  \A i \in 1..Len(GamePorts[table[id].gameId]) :
    table[id].allocatedPorts[GamePorts[table[id].gameId][i].name] # 0

\* C34: a server leaves PendingPorts for a status other than Deleting only
\* in a step that allocates its ports (it becomes Pending, with rows in the
\* game pool and a full port map); and every server that is Pending,
\* Provisioning, Running or Stopped has a port for each port name of its
\* game.
C34_PortsBeforeProvisioning ==
  /\ [][\A id \in ServerIds :
          (servers[id].status = "pending_ports"
             /\ servers'[id].status \notin {"pending_ports", "deleting"}) =>
            /\ servers'[id].status = "pending"
            /\ GameRows(port_allocations', id) # {}
            /\ HasAllPorts(servers', id)]_vars
  /\ [](\A id \in ServerIds :
          (ServerFound(id) /\ servers[id].status \in
             {"pending", "provisioning", "running", "stopped"}) =>
            HasAllPorts(servers, id))


\* the jobs created before job p that create or destroy the instance of
\* the same server
InstanceJobsBefore(p) ==
  {k \in DOMAIN jobs : /\ k < p
                       /\ jobs[k].serverId = jobs[p].serverId
                       /\ jobs[k].action \in {"provision", "deprovision"}}

\* job p is the first provision job after a completed deprovision job that
\* followed a completed provision job: the instance the server had has
\* been destroyed
InstanceDestroyedBefore(p) ==
  /\ InstanceJobsBefore(p) # {}
  /\ LET j == Max(InstanceJobsBefore(p))
     IN /\ jobs[j].action = "deprovision"
        /\ jobs[j].status = "completed"
        /\ InstanceJobsBefore(j) # {}
        /\ LET q == Max(InstanceJobsBefore(j))
           IN jobs[q].action = "provision" /\ jobs[q].status = "completed"

\* C35: the provision job that follows a successful deprovision job of a
\* server whose instance was destroyed starts with the instance step
\* (provisionVm) and not with the provision entry point against the stored
\* address.
C35_ReprovisionCreatesInstance ==
  [][\A p \in DOMAIN jobs :
       /\ jobs[p].status = "queued"
       /\ jobs'[p].status = "running"
       /\ jobs[p].action = "provision"
       /\ InstanceDestroyedBefore(p)
       => contexts'[p].phase = "vm"]_vars

\* C36: a setup-sftp or reset-sftp-password job that the runner claims
\* while its server exists reads a server row that carries the secret
\* stashed by the request which created the job.
C36_SftpJobFindsSecret ==
  [][\A j \in DOMAIN jobs :
       /\ jobs[j].status = "queued"
       /\ jobs'[j].status = "running"
       /\ jobs[j].action \in {"setup-sftp", "reset-sftp-password"}
       /\ ServerFound(jobs[j].serverId)
       => contexts'[j].server.sftpPassword]_vars

\* some provision job of server id has completed successfully
ProvisionCompleted(id) ==
  \E j \in DOMAIN jobs : /\ jobs[j].serverId = id
                         /\ jobs[j].action = "provision"
                         /\ jobs[j].status = "completed"

\* C37: a server whose status is Running has a provision job that
\* completed successfully.
C37_RunningWasProvisioned ==
  \A id \in ServerIds :
    servers[id].status = "running" => ProvisionCompleted(id)

\* C38: while a delete job is queued or running, the status of its server
\* is Deleting.
C38_DeleteJobMeansDeleting ==
  \A j \in DOMAIN jobs :
    jobs[j].action = "delete" /\ jobs[j].status \in {"queued", "running"}
    => servers[jobs[j].serverId].status = "deleting"

\* the rows of the port allocation table that belong to server id
OwnedRows(id) == {r \in port_allocations : r.serverId = id}

\* C39: a soft-deleted server owns no row of the port allocation table, in
\* the game pool or in the SFTP pool; the step in which a server becomes
\* soft-deleted leaves it without rows, and no later step gives it one.
C39_DeletedOwnsNoPorts ==
  \A id \in ServerIds : servers[id].deleted => OwnedRows(id) = {}

\* a server that held game ports and an SFTP port is soft-deleted and owns
\* nothing, while another server keeps its rows
C39_Witness ==
  \E id \in ServerIds :
    /\ servers[id].deleted
    /\ servers[id].allocatedPorts # NoPorts
    /\ id \in sftp_access
    /\ OwnedRows(id) = {}
    /\ port_allocations # {}

\* the jobs whose stored status is Running
RunningJobs == {j \in DOMAIN jobs : jobs[j].status = "running"}

\* C40: with one runner, the jobs whose stored status is Running are the
\* jobs of the runner's in-flight set, in every state (the handlers of the
\* event loop are the steps); so no job is Running while the in-flight set
\* is empty.
C40_RunningIsInFlight ==
  /\ RunningJobs = activeJobs[1]
  /\ activeJobs[1] = {} => \A j \in DOMAIN jobs : jobs[j].status # "running"

\* a job is in flight with status Running while an earlier job has ended
\* and a later one waits in the queue
C40_Witness ==
  /\ activeJobs[1] # {}
  /\ RunningJobs = activeJobs[1]
  /\ \E j \in DOMAIN jobs : Terminal(j)
  /\ \E j \in DOMAIN jobs : jobs[j].status = "queued"
====
